---- MODULE Spec2Model ----
(***************************************************************************)
(* The seven ESP32 firmware sketches of the repository, each a single LED  *)
(* controlled over one or two transports:                                  *)
(*   hybrid    src/ESP32_Hybrid_REST_WebSocket.cpp   (HTTP + WebSocket)    *)
(*   ws        src/websocket/ESP32_WebSocket_Minimal.cpp                   *)
(*   rest      src/http-REST/ESP32_REST_Minimal.cpp                        *)
(*   demo      src/ESP32_REST_Demo.cpp                                     *)
(*   endpoint  src/ESP_WIFI_Endpoint.cpp                                   *)
(*   mqtt      src/mqtt/ESP32_MQTT_Minimal.cpp                             *)
(*   bt        src/bluetooth/ESP32_Bluetooth_Simple.cpp                    *)
(* One firmware image runs one sketch: the variable sketch is chosen in    *)
(* Init and never changes, so the reachable states are the disjoint union  *)
(* of the seven programs' states.                                          *)
(*                                                                         *)
(* A text (WebSocket frame, HTTP body) is modelled by the set of the       *)
(* fragments that occur in it: the handlers inspect a text only through    *)
(* toLowerCase() and indexOf(fragment) >= 0, which depend on nothing else. *)
(* A Bluetooth line and an MQTT message are compared as whole strings and  *)
(* are modelled by a string.                                               *)
(***************************************************************************)
EXTENDS Integers, Sequences, FiniteSets, TLC

VARIABLES
  sketch,          \* which firmware image runs
  phase,           \* "boot" (before setup), "prompt" (setup() asks for the
                   \* SSID again), "loop", "halted" (while(1) delay)
  listening,       \* the transport servers were started by setup()
  ledState,        \* bool ledState
  ledPin,          \* level of the LED GPIO: "unset", "LOW", "HIGH"
  ledWriter,       \* the routine that made the last assignment to ledState
  clients,         \* hybrid: ClientInfo clients[WEBSOCKETS_SERVER_CLIENT_MAX]
  sessionCounter,  \* hybrid: uint32_t sessionCounter
  wsOpen,          \* the WebSocket library's slots that hold an open connection
  mqttConnected,   \* mqttClient.connected()
  bluetoothConnected,   \* bt: bool bluetoothConnected
  subscribed,      \* mqtt: the topics the broker delivers to this client
  reading,         \* the call of readSerialLine() in progress and the
                   \* credentials it gave: see IdleRead
  connects,        \* number of WStype_CONNECTED events handled one by one
  maxIssued,       \* the greatest session id handed out so far
  event,           \* the event the last step handled
  out,             \* the messages the last step sent, in the order of the calls
  run,             \* the current run of consecutive toggle commands
  now,             \* millis(), in ticks of the model's clock
  lastWifiCheck,   \* uint32_t lastWifiCheck (endpoint: lastCheck)
  lastStatusBroadcast,  \* lastStatusBroadcast (mqtt: lastStatusPublish)
  lastMqttReconnect,    \* mqtt: uint32_t lastMqttReconnect
  wifiUp,          \* WiFi.status() == WL_CONNECTED
  pc,              \* the position of loop() in its body
  sinceWifiCheck,  \* ticks that really passed since lastWifiCheck was set
  sinceMqttReconnect,   \* the same for lastMqttReconnect
  sinceStatus      \* the same for lastStatusBroadcast

vars == <<sketch, phase, listening, ledState, ledPin, ledWriter, clients,
          sessionCounter, wsOpen, mqttConnected, bluetoothConnected,
          reading, subscribed,
          connects, maxIssued, event, out, run, now, lastWifiCheck,
          lastStatusBroadcast,
          lastMqttReconnect, wifiUp, pc, sinceWifiCheck, sinceMqttReconnect,
          sinceStatus>>

\* The timers of loop(), the clock they are compared with and the link.
timers == <<lastWifiCheck, lastStatusBroadcast, lastMqttReconnect,
            sinceWifiCheck, sinceMqttReconnect, sinceStatus>>

clock == <<now, timers, wifiUp, pc>>

----------------------------------------------------------------------------
(* Bounds of the model. *)

\* Stands for WEBSOCKETS_SERVER_CLIENT_MAX (8 in the library's default build).
MaxClients == 2

\* WStype_CONNECTED events explored step by step.
MaxConnects == 2

\* Length of a run of consecutive toggle commands that is followed.
MaxRun == 2

\* Number of distinct fragments in one text.
MaxFragments == 2

Sketches == {"hybrid", "ws", "rest", "demo", "endpoint", "mqtt", "bt"}

WsSketches == {"hybrid", "ws"}

HttpSketches == {"hybrid", "rest", "demo", "endpoint"}

Slots == 0 .. (MaxClients - 1)

----------------------------------------------------------------------------
(* uint32_t values. TLC's integers are 32-bit signed, so a uint32_t is kept *)
(* as its two 16-bit halves.                                                *)

Half == 65536

U32(h, l) == [hi |-> h, lo |-> l]

U32Zero == U32(0, 0)

\* ++x on a uint32_t: wraps from 2^32 - 1 to 0.
U32Inc(x) ==
  IF x.lo = Half - 1
    THEN U32((x.hi + 1) % Half, 0)
    ELSE U32(x.hi, x.lo + 1)

U32Less(a, b) == a.hi < b.hi \/ (a.hi = b.hi /\ a.lo < b.lo)

U32Max(a, b) == IF U32Less(a, b) THEN b ELSE a

\* Absent session id of a message.
NoSid == U32(-1, -1)

----------------------------------------------------------------------------
(* Texts. *)

CmdLedOn == "\"command\":\"led_on\""
CmdLedOff == "\"command\":\"led_off\""
CmdToggle == "\"command\":\"toggle\""
CmdStatus == "\"command\":\"status\""
CmdList == "\"command\":\"list\""
CmdToggleUpper == "\"COMMAND\":\"TOGGLE\""

StateTrue == "\"state\":true"
StateFalse == "\"state\":false"
StateTrueSp == "\"state\": true"
StateFalseSp == "\"state\": false"
StateTrueUpper == "\"STATE\":TRUE"

\* The fragments a WebSocket frame is made of.
WsFragments ==
  {CmdLedOn, CmdLedOff, CmdToggle, CmdStatus, CmdList, CmdToggleUpper}

\* The fragments an HTTP body is made of.
BodyFragments ==
  {StateTrue, StateFalse, StateTrueSp, StateFalseSp, StateTrueUpper}

WsPayloads == {p \in SUBSET WsFragments : Cardinality(p) <= MaxFragments}

Bodies == {b \in SUBSET BodyFragments : Cardinality(b) <= MaxFragments}

\* String::toLowerCase() on one fragment.
LowerFragment(f) ==
  CASE f = CmdToggleUpper -> CmdToggle
    [] f = StateTrueUpper -> StateTrue
    [] OTHER -> f

\* A toLowerCase() that leaves the text as it is.
toLowerCaseKept(text) == text

\* String::toLowerCase(): every character of the text, so every fragment.
toLowerCase(text) == {LowerFragment(f) : f \in text}

\* String::indexOf(pattern): -1 when the pattern does not occur. The position
\* of an occurrence is not used by any caller beyond its sign.
indexOf(text, pattern) == IF pattern \in text THEN 0 ELSE -1

\* String(b ? "true" : "false")
BoolText(b) == IF b THEN "true" ELSE "false"

\* What a JSON reader extracts from a rendered boolean field.
TextBool(t) == t = "true"

----------------------------------------------------------------------------
(* Messages sent and events handled. *)

\* A message handed to a transport; a field the rendering does not contain
\* keeps the value it has here.
BaseMsg ==
  [chan |-> "none", to |-> -1, type |-> "none", code |-> 0,
   success |-> "none", message |-> "none", error |-> "none",
   ledKey |-> "none", led |-> "none", session_id |-> NoSid,
   ws_clients |-> -1, path |-> "none", btConnected |-> "none"]

\* The event a step handles: a callback invocation with its arguments.
BaseEvent ==
  [kind |-> "none", slot |-> -1, method |-> "none", path |-> "none",
   hasBody |-> FALSE, text |-> {}, line |-> "", topic |-> "none",
   variant |-> "none", arg |-> FALSE]

\* webSocket.broadcastTXT is addressed to every connected client.
Everyone == -1

----------------------------------------------------------------------------
(* Session registry of the hybrid sketch. *)

\* The address of an IPAddress that was never assigned.
NoAddress == "0.0.0.0"

\* The addresses webSocket.remoteIP() returns.
RemoteIPs == {"192.168.4.2"}

\* clients[i] after initClientTracking(), which runs once on the
\* zero-initialised global: ip and connectTime are those of the initialiser.
FreshClient ==
  [sessionId |-> U32Zero, active |-> FALSE, ip |-> NoAddress,
   connectTime |-> 0]

\* getActiveClientCount that always finds a client.
getActiveClientCountOne(cl) == 1

getActiveClientCount(cl) == Cardinality({i \in Slots : cl[i].active})

\* registerClient(clientNum, ip): the counter after ++sessionCounter.
registerCounter(counter) == U32Inc(counter)

\* registerClient that frees the slot after the one it fills.
registerClientEvict(cl, counter, clientNum) ==
  [i \in Slots |->
     IF i = clientNum
       THEN [cl[i] EXCEPT !.sessionId = registerCounter(counter),
                          !.active = TRUE]
       ELSE IF i = (clientNum + 1) % MaxClients
         THEN [cl[i] EXCEPT !.active = FALSE]
         ELSE cl[i]]

\* unregisterClient that clears the whole entry.
unregisterClientWipe(cl, clientNum) == [cl EXCEPT ![clientNum] = FreshClient]

\* unregisterClient that leaves the slot active.
unregisterClientKeep(cl, clientNum) == cl

\* registerClient that marks the slot active and keeps the id found in it.
registerClientNoId(cl, counter, clientNum) ==
  [cl EXCEPT ![clientNum].active = TRUE]

\* registerClient that leaves the active flag as it was.
registerClientInactive(cl, counter, clientNum) ==
  [cl EXCEPT ![clientNum].sessionId = registerCounter(counter)]

\* registerClient(clientNum, ip): sessionId and active after the call.
registerClient(cl, counter, clientNum) ==
  [cl EXCEPT ![clientNum].sessionId = registerCounter(counter),
             ![clientNum].active = TRUE]

\* registerClient(clientNum, ip): ip and connectTime (millis()) after the call.
registerClientInfo(cl, clientNum, ip, millis) ==
  [cl EXCEPT ![clientNum].ip = ip, ![clientNum].connectTime = millis]

\* unregisterClient(clientNum)
unregisterClient(cl, clientNum) ==
  [cl EXCEPT ![clientNum].active = FALSE]

----------------------------------------------------------------------------
(* The LED. *)

PinLevel(state) == IF state THEN "HIGH" ELSE "LOW"

\* The led_update message setLED broadcasts in the hybrid sketch.
LedUpdateMsg(led) ==
  [BaseMsg EXCEPT !.chan = "ws", !.to = Everyone, !.type = "led_update",
                  !.ledKey = "led", !.led = BoolText(led)]

\* setLED without the broadcast.
setLEDSendsNothing(sk, state) == <<>>

\* What setLED(state) sends: the hybrid sketch calls webSocket.broadcastTXT,
\* the other sketches send nothing.
setLEDSends(sk, state) ==
  IF sk = "hybrid" THEN <<LedUpdateMsg(state)>> ELSE <<>>

\* setLEDState with the assignment inverted.
setLEDStateInverted(state) == ~state

\* ledState after setLED(state).
setLEDState(state) == state

\* setLED without the digitalWrite.
setLEDNoPin(state) ==
  /\ ledState' = setLEDState(state)
  /\ ledPin' = ledPin
  /\ ledWriter' = "setLED"

\* setLED(state): the assignment and the digitalWrite.
setLED(state) ==
  /\ ledState' = setLEDState(state)
  /\ ledPin' = PinLevel(state)
  /\ ledWriter' = "setLED"

\* A handler without a setLED call that inverts the LED all the same.
LedFlipped ==
  /\ ledState' = ~ledState
  /\ ledPin' = PinLevel(~ledState)
  /\ UNCHANGED ledWriter

\* A handler that does not touch the LED.
LedUnchanged == UNCHANGED <<ledState, ledPin, ledWriter>>

----------------------------------------------------------------------------
(* Renderings. *)

\* buildStatusJson that renders the LED as it was at start-up.
buildStatusJsonFixed(sk, led, cl) ==
  [BaseMsg EXCEPT !.type = IF sk = "ws" THEN "status" ELSE "none",
                  !.ledKey = "led", !.led = "false",
                  !.ws_clients = IF sk = "hybrid"
                                   THEN getActiveClientCount(cl) ELSE -1]

\* buildStatusJson() of the hybrid and WebSocket sketches, read in state
\* (led, cl). The hybrid one has no "type" field and counts the clients.
buildStatusJson(sk, led, cl) ==
  [BaseMsg EXCEPT !.type = IF sk = "ws" THEN "status" ELSE "none",
                  !.ledKey = "led", !.led = BoolText(led),
                  !.ws_clients = IF sk = "hybrid"
                                   THEN getActiveClientCount(cl) ELSE -1]

\* buildWsResponseJson / buildResponseJson(success, message), read with
\* ledState = led.
buildWsResponseJson(success, message, led) ==
  [BaseMsg EXCEPT !.type = "response", !.success = BoolText(success),
                  !.message = message, !.ledKey = "led",
                  !.led = BoolText(led)]

\* webSocket.sendTXT(clientNum, json)
sendTXT(clientNum, json) == [json EXCEPT !.chan = "ws", !.to = clientNum]

\* webSocket.broadcastTXT(json)
broadcastTXT(json) == [json EXCEPT !.chan = "ws", !.to = Everyone]

----------------------------------------------------------------------------
(* The run of consecutive toggle commands: led0 is ledState when the run    *)
(* began, k the number of toggle commands handled since, with no other      *)
(* command in between.                                                      *)

RunAfterToggle(r, ledBefore) ==
  IF r.k < MaxRun
    THEN [led0 |-> r.led0, k |-> r.k + 1]
    ELSE [led0 |-> ledBefore, k |-> 1]

RunAfterOther(ledAfter) == [led0 |-> ledAfter, k |-> 0]

----------------------------------------------------------------------------
(* Construction and setup(). *)

\* The globals as their initialisers leave them, before setup() has run.
TOPIC_LED_CONTROL == "esp32/led/control"
TOPIC_LED_STATUS == "esp32/led/status"
TOPIC_DEVICE_STATUS == "esp32/device/status"
TOPIC_DEVICE_COMMAND == "esp32/device/command"

MqttTopics == {TOPIC_LED_CONTROL, TOPIC_DEVICE_COMMAND}

\* connectMqtt() that subscribes to the LED-control topic only.
connectMqttSubscribedOne(ok, subs) ==
  IF ok THEN subs \cup {TOPIC_LED_CONTROL} ELSE subs

\* connectMqtt(): the subscriptions after the call, ok being the result of
\* mqttClient.connect(); the two mqttClient.subscribe() calls are made on
\* success.
connectMqttSubscribed(ok, subs) ==
  IF ok THEN (subs \cup {TOPIC_LED_CONTROL}) \cup {TOPIC_DEVICE_COMMAND}
        ELSE subs

\* Stands for the longest line typed at the prompt.
MaxInput == 2

\* readSerialLine() before its first call: call is the credential being read
\* ("ssid", "password"), at the position ("idle", "loop", "returned"), input
\* and start the locals of the call, how the return taken ("line",
\* "timeout"), wifiSSID and wifiPassword the globals the results go to.
IdleRead ==
  [call |-> "none", at |-> "idle", input |-> <<>>, start |-> 0,
   how |-> "none", wifiSSID |-> <<>>, wifiPassword |-> <<>>]

Init ==
  /\ sketch \in Sketches
  /\ phase = "boot"
  /\ listening = FALSE
  /\ ledState = FALSE
  /\ ledPin = "unset"
  /\ ledWriter = "init"
  /\ clients = [i \in Slots |-> FreshClient]
  /\ sessionCounter = U32Zero
  /\ wsOpen = [i \in Slots |-> FALSE]
  /\ mqttConnected = FALSE
  /\ bluetoothConnected = FALSE
  /\ reading = IdleRead
  /\ subscribed = {}
  /\ connects = 0
  /\ maxIssued = U32Zero
  /\ event = BaseEvent
  /\ out = <<>>
  /\ run = RunAfterOther(FALSE)
  /\ now = 0
  /\ lastWifiCheck = 0
  /\ lastStatusBroadcast = 0
  /\ lastMqttReconnect = 0
  /\ wifiUp = FALSE
  /\ pc = 1
  /\ sinceWifiCheck = 0
  /\ sinceMqttReconnect = 0
  /\ sinceStatus = 0

\* The device status the MQTT sketch publishes (createStatusJson).
createStatusJson(led, connected) ==
  [BaseMsg EXCEPT !.chan = "mqtt", !.type = "esp32/device/status",
                  !.ledKey = "led_state", !.led = BoolText(led),
                  !.message = IF connected THEN "mqtt_connected:true"
                                           ELSE "mqtt_connected:false"]

\* publishDeviceStatus()
publishDeviceStatus(led, connected) == <<createStatusJson(led, connected)>>

\* A setup() that always reaches its end.
PhaseAfterSetupLoop(sk, linkOk) == "loop"

\* Where setup() ends: on a failed WiFi connection it stays in
\* "while(1) delay(1000)", except in the endpoint sketch, whose setup()
\* returns, so that loop() runs.
PhaseAfterSetup(sk, linkOk) ==
  IF linkOk \/ sk = "endpoint" THEN "loop" ELSE "halted"

\* setup(). linkOk: connectWiFi() (bt: SerialBT.begin()) succeeds; brokerOk:
\* connectMqtt() succeeds. Every sketch but endpoint calls setLED(false);
\* endpoint only drives the pin low. On a failed link endpoint returns from
\* setup() and enters loop() with no server started, the others stay in
\* while(1).
Setup(linkOk, brokerOk) ==
  /\ phase \in {"boot", "prompt"}
  /\ (sketch # "mqtt" => brokerOk = FALSE)
  /\ IF phase = "prompt" THEN LedUnchanged
     ELSE IF sketch = "endpoint"
       THEN /\ ledPin' = "LOW"
            /\ UNCHANGED <<ledState, ledWriter>>
       ELSE setLED(FALSE)
  /\ clients' = [i \in Slots |-> FreshClient]
  /\ phase' = PhaseAfterSetup(sketch, linkOk)
  /\ listening' = linkOk
  /\ mqttConnected' = (linkOk /\ brokerOk)
  /\ subscribed' = connectMqttSubscribed(linkOk /\ brokerOk, subscribed)
  /\ UNCHANGED <<bluetoothConnected, reading>>
  /\ event' = [BaseEvent EXCEPT !.kind = "setup", !.arg = linkOk]
  /\ out' = (IF sketch = "endpoint" \/ phase = "prompt" THEN <<>>
             ELSE setLEDSends(sketch, FALSE))
            \o (IF linkOk /\ brokerOk
                  THEN publishDeviceStatus(FALSE, TRUE) ELSE <<>>)
  /\ run' = RunAfterOther(FALSE)
  /\ wifiUp' = linkOk
  /\ UNCHANGED <<sketch, sessionCounter, wsOpen, connects, maxIssued, now,
                 timers, pc>>

\* The sketches whose setup() reads the WiFi credentials from the serial
\* port; the others have them in the source.
Prompting == {"hybrid", "ws", "rest", "mqtt"}

\* getWiFiCredentials() returning false on an empty SSID: setup() has
\* initialised the LED and stays in "while (!getWiFiCredentials())", where
\* it asks again after delay(2000).
getWiFiCredentials ==
  /\ sketch \in Prompting
  /\ phase \in {"boot", "prompt"}
  /\ phase' = "prompt"
  /\ IF phase = "boot" THEN setLED(FALSE) ELSE LedUnchanged
  /\ out' = IF phase = "boot" THEN setLEDSends(sketch, FALSE) ELSE <<>>
  /\ clients' = [i \in Slots |-> FreshClient]
  /\ event' = [BaseEvent EXCEPT !.kind = "credentials"]
  /\ run' = RunAfterOther(FALSE)
  /\ UNCHANGED <<sketch, listening, sessionCounter, wsOpen, mqttConnected,
                 bluetoothConnected, reading, subscribed, connects, maxIssued>>
  /\ UNCHANGED clock

----------------------------------------------------------------------------
(* WebSocket events: webSocketEvent(clientNum, type, payload, length). *)

WsReady == sketch \in WsSketches /\ phase = "loop" /\ listening

\* The connect-time status without the prefix of the hybrid sketch.
ConnectStatusNoId(sk, led, cl, clientNum) == buildStatusJson(sk, led, cl)

\* The status pushed on WStype_CONNECTED: the hybrid sketch prefixes type and
\* session_id to buildStatusJson(), read after registerClient.
ConnectStatus(sk, led, cl, clientNum) ==
  IF sk = "hybrid"
    THEN [buildStatusJson(sk, led, cl) EXCEPT
            !.type = "status", !.session_id = cl[clientNum].sessionId]
    ELSE buildStatusJson(sk, led, cl)

\* case WStype_CONNECTED
WsConnected(clientNum) ==
  /\ WsReady
  /\ ~wsOpen[clientNum]
  /\ connects < MaxConnects
  /\ wsOpen' = [wsOpen EXCEPT ![clientNum] = TRUE]
  /\ connects' = connects + 1
  /\ IF sketch = "hybrid"
       THEN /\ \E ip \in RemoteIPs :
                 clients' = registerClientInfo(
                              registerClient(clients, sessionCounter,
                                             clientNum),
                              clientNum, ip, now)
            /\ sessionCounter' = registerCounter(sessionCounter)
            /\ maxIssued' = U32Max(maxIssued, clients'[clientNum].sessionId)
       ELSE UNCHANGED <<clients, sessionCounter, maxIssued>>
  /\ event' = [BaseEvent EXCEPT !.kind = "ws_connected", !.slot = clientNum]
  /\ out' = <<sendTXT(clientNum,
                      ConnectStatus(sketch, ledState, clients', clientNum))>>
  /\ LedUnchanged
  /\ UNCHANGED <<sketch, phase, listening, mqttConnected, bluetoothConnected, reading, subscribed,
                 run>>
  /\ UNCHANGED clock

\* case WStype_DISCONNECTED
WsDisconnected(clientNum) ==
  /\ WsReady
  /\ wsOpen[clientNum]
  /\ wsOpen' = [wsOpen EXCEPT ![clientNum] = FALSE]
  /\ clients' = IF sketch = "hybrid"
                  THEN unregisterClient(clients, clientNum) ELSE clients
  /\ event' = [BaseEvent EXCEPT !.kind = "ws_disconnected", !.slot = clientNum]
  /\ out' = <<>>
  /\ LedUnchanged
  /\ UNCHANGED <<sketch, phase, listening, sessionCounter, mqttConnected,
                 bluetoothConnected, reading, subscribed, connects, maxIssued, run>>
  /\ UNCHANGED clock

\* case WStype_DISCONNECTED for a slot without a registered session: the
\* library closes a connection whose handshake did not complete, for which
\* it raised no WStype_CONNECTED.
WsDropped(clientNum) ==
  /\ WsReady
  /\ ~wsOpen[clientNum]
  /\ clients' = IF sketch = "hybrid"
                  THEN unregisterClient(clients, clientNum) ELSE clients
  /\ event' = [BaseEvent EXCEPT !.kind = "ws_disconnected", !.slot = clientNum,
                                !.variant = "dropped"]
  /\ out' = <<>>
  /\ LedUnchanged
  /\ UNCHANGED <<sketch, phase, listening, sessionCounter, wsOpen,
                 mqttConnected, bluetoothConnected, reading, subscribed, connects, maxIssued, run>>
  /\ UNCHANGED clock

\* A connection arrives while every slot of the library holds an open
\* connection: the library closes it and raises no event, so no routine of
\* the sketch runs.
WsRefused ==
  /\ WsReady
  /\ \A i \in Slots : wsOpen[i]
  /\ event' = [BaseEvent EXCEPT !.kind = "ws_refused"]
  /\ out' = <<>>
  /\ LedUnchanged
  /\ UNCHANGED <<sketch, phase, listening, clients, sessionCounter, wsOpen,
                 mqttConnected, bluetoothConnected, reading, subscribed, connects, maxIssued, run>>
  /\ UNCHANGED clock

\* The greatest uint32_t, 2^32 - 1: the last value of the counter before ++
\* wraps to 0.
NearWrap == U32(Half - 1, Half - 1)

\* 2^32 - 1 connections made and closed one after the other on slot 0, each a
\* WsConnected(0) followed by a WsDisconnected(0), taken as one step because
\* TLC cannot walk through them. Enabled while nothing else has connected.
WsLongRun ==
  /\ WsReady
  /\ sketch = "hybrid"
  /\ sessionCounter = U32Zero
  /\ \A i \in Slots : ~wsOpen[i]
  /\ sessionCounter' = NearWrap
  /\ maxIssued' = NearWrap
  /\ \E ip \in RemoteIPs :
       clients' = [clients EXCEPT ![0] =
                     [sessionId |-> NearWrap, active |-> FALSE, ip |-> ip,
                      connectTime |-> now]]
  /\ event' = [BaseEvent EXCEPT !.kind = "ws_disconnected", !.slot = 0]
  /\ out' = <<>>
  /\ LedUnchanged
  /\ UNCHANGED <<sketch, phase, listening, wsOpen, mqttConnected,
                 bluetoothConnected, reading, subscribed, connects, run>>
  /\ UNCHANGED clock

\* WsBranch whose chain ends in the status branch instead of the final else.
WsBranchNoElse(sk, payload) ==
  LET p == toLowerCase(payload) IN
  IF indexOf(p, CmdLedOn) >= 0 THEN "led_on"
  ELSE IF indexOf(p, CmdLedOff) >= 0 THEN "led_off"
  ELSE IF indexOf(p, CmdToggle) >= 0 THEN "toggle"
  ELSE IF sk = "hybrid" /\ indexOf(p, CmdList) >= 0 THEN "list"
  ELSE "status"

\* The branch handleWebSocketMessage takes on a payload: the if / else-if
\* chain on the lower-cased text. The WebSocket sketch has no "list" branch.
WsBranch(sk, payload) ==
  LET p == toLowerCase(payload) IN
  IF indexOf(p, CmdLedOn) >= 0 THEN "led_on"
  ELSE IF indexOf(p, CmdLedOff) >= 0 THEN "led_off"
  ELSE IF indexOf(p, CmdToggle) >= 0 THEN "toggle"
  ELSE IF indexOf(p, CmdStatus) >= 0 THEN "status"
  ELSE IF sk = "hybrid" /\ indexOf(p, CmdList) >= 0 THEN "list"
  ELSE "unrecognized"

\* handleWebSocketMessage without the test of the active flag.
WsSelectedAny(sk, active, payload) == WsBranch(sk, payload)

\* What handleWebSocketMessage selects: the hybrid sketch returns at once on
\* a slot that is not active, before it looks at the payload.
WsSelected(sk, active, payload) ==
  IF sk = "hybrid" /\ ~active THEN "none" ELSE WsBranch(sk, payload)

\* WsLedArg whose toggle branch calls setLED(true).
WsLedArgToggleOn(variant, led) ==
  CASE variant = "led_on" -> TRUE
    [] variant = "led_off" -> FALSE
    [] variant = "toggle" -> TRUE
    [] OTHER -> led

\* The value the selected branch passes to setLED.
WsLedArg(variant, led) ==
  CASE variant = "led_on" -> TRUE
    [] variant = "led_off" -> FALSE
    [] variant = "toggle" -> ~led
    [] OTHER -> led

\* WsSetsLed with a setLED call in the list branch as well.
WsSetsLedList(variant) == variant \in {"led_on", "led_off", "toggle", "list"}

\* The branches that call setLED.
WsSetsLed(variant) == variant \in {"led_on", "led_off", "toggle"}

\* The message of the toggle branch built from the state before the toggle.
ToggleMessageBefore(ledAfter) == IF ledAfter THEN "LED OFF" ELSE "LED ON"

\* ledState ? "LED ON" : "LED OFF", evaluated after setLED(!ledState).
ToggleMessage(ledAfter) == IF ledAfter THEN "LED ON" ELSE "LED OFF"

\* The reply of the selected branch, built after setLED has run (ledAfter).
WsReply(sk, variant, clientNum, ledAfter, cl) ==
  CASE variant = "led_on" ->
         <<sendTXT(clientNum, buildWsResponseJson(TRUE, "LED ON", ledAfter))>>
    [] variant = "led_off" ->
         <<sendTXT(clientNum, buildWsResponseJson(TRUE, "LED OFF", ledAfter))>>
    [] variant = "toggle" ->
         <<sendTXT(clientNum,
                   buildWsResponseJson(TRUE, ToggleMessage(ledAfter),
                                       ledAfter))>>
    [] variant = "status" ->
         <<sendTXT(clientNum, buildStatusJson(sk, ledAfter, cl))>>
    [] variant = "unrecognized" ->
         <<sendTXT(clientNum,
                   buildWsResponseJson(FALSE, "Unknown command", ledAfter))>>
    [] OTHER -> <<>>

\* case WStype_TEXT: handleWebSocketMessage(clientNum, payload)
WsText(clientNum, payload) ==
  LET variant == WsSelected(sketch, clients[clientNum].active, payload) IN
  /\ WsReady
  /\ wsOpen[clientNum]
  /\ event' = [BaseEvent EXCEPT !.kind = "ws_text", !.slot = clientNum,
                                !.text = payload, !.variant = variant,
                                !.arg = WsLedArg(variant, ledState)]
  /\ IF WsSetsLed(variant)
       THEN /\ setLED(WsLedArg(variant, ledState))
            /\ out' = setLEDSends(sketch, WsLedArg(variant, ledState))
                      \o WsReply(sketch, variant, clientNum, ledState', clients)
       ELSE /\ LedUnchanged
            /\ out' = WsReply(sketch, variant, clientNum, ledState, clients)
  /\ run' = IF variant = "toggle" THEN RunAfterToggle(run, ledState)
            ELSE IF variant = "none" THEN run
            ELSE RunAfterOther(ledState')
  /\ UNCHANGED <<sketch, phase, listening, clients, sessionCounter, wsOpen,
                 mqttConnected, bluetoothConnected, reading, subscribed, connects, maxIssued>>
  /\ UNCHANGED clock

\* The payloads of the frames followed on a slot without a session: one per
\* branch of handleWebSocketMessage.
InactivePayloads ==
  {{CmdLedOn}, {CmdLedOff}, {CmdToggle}, {CmdStatus}, {CmdList}, {}}

\* case WStype_TEXT for a slot of the hybrid sketch on which the library
\* holds no open connection, so that its registry entry is not active:
\* handleWebSocketMessage(clientNum, payload) as in WsText.
WsTextInactive(clientNum, payload) ==
  LET variant == WsSelected(sketch, clients[clientNum].active, payload) IN
  /\ WsReady
  /\ sketch = "hybrid"
  /\ ~wsOpen[clientNum]
  /\ event' = [BaseEvent EXCEPT !.kind = "ws_text_inactive",
                                !.slot = clientNum, !.text = payload,
                                !.variant = variant,
                                !.arg = WsLedArg(variant, ledState)]
  /\ IF WsSetsLed(variant)
       THEN /\ setLED(WsLedArg(variant, ledState))
            /\ out' = setLEDSends(sketch, WsLedArg(variant, ledState))
                      \o WsReply(sketch, variant, clientNum, ledState', clients)
       ELSE /\ LedUnchanged
            /\ out' = WsReply(sketch, variant, clientNum, ledState, clients)
  /\ run' = IF variant = "toggle" THEN RunAfterToggle(run, ledState)
            ELSE IF variant = "none" THEN run
            ELSE RunAfterOther(ledState')
  /\ UNCHANGED <<sketch, phase, listening, clients, sessionCounter, wsOpen,
                 mqttConnected, bluetoothConnected, reading, subscribed, connects,
                 maxIssued>>
  /\ UNCHANGED clock

----------------------------------------------------------------------------
(* HTTP requests: server.handleClient() dispatching to the routes that      *)
(* setup() registers.                                                       *)

HttpReady == sketch \in HttpSketches /\ phase = "loop" /\ listening

Paths == {"/", "/status", "/led/on", "/led/off", "/led", "/nope"}

\* The requests explored: a body only matters to POST /led.
HttpRequests ==
  [method : {"GET", "POST"}, path : Paths, hasBody : {FALSE}, body : {{}}]
    \cup [method : {"POST"}, path : {"/led"}, hasBody : {TRUE}, body : Bodies]

\* server.on(path, method, handler) / server.onNotFound(handleNotFound)
HttpRoute(sk, method, path) ==
  CASE method = "GET" /\ path = "/status" -> "handleStatus"
    [] method = "GET" /\ path = "/led/on" -> "handleLedOn"
    [] method = "GET" /\ path = "/led/off" -> "handleLedOff"
    [] method = "POST" /\ path = "/led" -> "handleLedControl"
    [] method = "GET" /\ path = "/" /\ sk \in {"demo", "endpoint"} ->
         "handleRoot"
    [] OTHER -> "handleNotFound"

\* A handleLedControl that takes every body without "state":true for a
\* request to switch off.
PostBranchOffByDefault(sk, hasBody, body) ==
  IF ~hasBody THEN "missing"
  ELSE IF indexOf(toLowerCase(body), StateTrue) >= 0 THEN "on"
  ELSE "off"

\* The branch handleLedControl takes. hybrid and rest lower-case the body and
\* look for "state":true / "state":false; demo also accepts a space after the
\* colon; endpoint accepts the space but does not lower-case.
PostBranch(sk, hasBody, body) ==
  LET b == IF sk = "endpoint" THEN body ELSE toLowerCase(body)
      spaced == sk \in {"demo", "endpoint"}
  IN  IF ~hasBody THEN "missing"
      ELSE IF indexOf(b, StateTrue) >= 0
              \/ (spaced /\ indexOf(b, StateTrueSp) >= 0) THEN "on"
      ELSE IF indexOf(b, StateFalse) >= 0
              \/ (spaced /\ indexOf(b, StateFalseSp) >= 0) THEN "off"
      ELSE "invalid"

\* What a request does to the LED: "on", "off" or "keep".
HttpLedEffect(sk, req) ==
  LET h == HttpRoute(sk, req.method, req.path) IN
  CASE h = "handleLedOn" -> "on"
    [] h = "handleLedOff" -> "off"
    [] h = "handleLedControl" /\ PostBranch(sk, req.hasBody, req.body) = "on"
         -> "on"
    [] h = "handleLedControl" /\ PostBranch(sk, req.hasBody, req.body) = "off"
         -> "off"
    [] OTHER -> "keep"

\* server.send(code, ...): the response of the request being handled.
HttpSend(code, json) == [json EXCEPT !.chan = "http", !.code = code]

\* sendJson that reports success whatever the code.
sendJsonOk(sk, code, message, includeState, led) ==
  HttpSend(code,
    [BaseMsg EXCEPT
       !.success = "true",
       !.message = message,
       !.ledKey = IF ~includeState THEN "none"
                  ELSE IF sk = "demo" THEN "led_state" ELSE "led",
       !.led = IF includeState THEN BoolText(led) ELSE "none"])

\* sendJson(code, message, includeState) of hybrid and rest;
\* sendJsonResponse(code, success, message, includeLedState) of demo.
sendJson(sk, code, message, includeState, led) ==
  HttpSend(code,
    [BaseMsg EXCEPT
       !.success = BoolText(code = 200),
       !.message = message,
       !.ledKey = IF ~includeState THEN "none"
                  ELSE IF sk = "demo" THEN "led_state" ELSE "led",
       !.led = IF includeState THEN BoolText(led) ELSE "none"])

\* The literal responses of the endpoint sketch.
EndpointLed(isOn, text) ==
  HttpSend(200, [BaseMsg EXCEPT !.success = "true", !.message = text,
                                !.ledKey = "led_state",
                                !.led = IF isOn THEN "true" ELSE "false"])

EndpointError(code, text) == HttpSend(code, [BaseMsg EXCEPT !.error = text])

\* handleStatus(), read with ledState = led.
HttpStatus(sk, led, cl) ==
  IF sk = "hybrid"
    THEN HttpSend(200, buildStatusJson(sk, led, cl))
    ELSE HttpSend(200,
           [BaseMsg EXCEPT
              !.success = IF sk = "demo" THEN "true" ELSE "none",
              !.ledKey = IF sk = "rest" THEN "led" ELSE "led_state",
              !.led = BoolText(led)])

\* A handleNotFound that answers 200.
HttpNotFoundFound(sk, path) ==
  [EndpointError(200, "Not found") EXCEPT !.path = path]

\* handleNotFound()
HttpNotFound(sk, path) ==
  CASE sk = "demo" -> sendJson(sk, 404, "Endpoint not found", FALSE, FALSE)
    [] sk = "endpoint" ->
         [EndpointError(404, "Endpoint not found") EXCEPT !.path = path]
    [] OTHER ->
         [EndpointError(404, "Not found") EXCEPT !.path = path]

\* handleRoot(): the HTML page, which shows the LED as ON or OFF.
HttpRoot(led) ==
  HttpSend(200, [BaseMsg EXCEPT !.type = "html", !.ledKey = "LED Status",
                                !.led = IF led THEN "ON" ELSE "OFF"])

\* The response to a request, built after the LED was set (ledAfter).
HttpReply(sk, req, ledAfter, cl) ==
  LET h == HttpRoute(sk, req.method, req.path)
      b == PostBranch(sk, req.hasBody, req.body)
  IN
  CASE h = "handleStatus" -> HttpStatus(sk, ledAfter, cl)
    [] h = "handleRoot" -> HttpRoot(ledAfter)
    [] h = "handleNotFound" -> HttpNotFound(sk, req.path)
    [] h = "handleLedOn" ->
         IF sk = "endpoint" THEN EndpointLed(TRUE, "LED turned ON")
         ELSE sendJson(sk, 200,
                IF sk = "demo" THEN "LED turned ON" ELSE "LED ON",
                TRUE, ledAfter)
    [] h = "handleLedOff" ->
         IF sk = "endpoint" THEN EndpointLed(FALSE, "LED turned OFF")
         ELSE sendJson(sk, 200,
                IF sk = "demo" THEN "LED turned OFF" ELSE "LED OFF",
                TRUE, ledAfter)
    [] h = "handleLedControl" /\ b = "on" ->
         IF sk = "endpoint" THEN EndpointLed(TRUE, "LED turned ON")
         ELSE sendJson(sk, 200,
                IF sk = "demo" THEN "LED turned ON" ELSE "LED ON",
                TRUE, ledAfter)
    [] h = "handleLedControl" /\ b = "off" ->
         IF sk = "endpoint" THEN EndpointLed(FALSE, "LED turned OFF")
         ELSE sendJson(sk, 200,
                IF sk = "demo" THEN "LED turned OFF" ELSE "LED OFF",
                TRUE, ledAfter)
    [] h = "handleLedControl" /\ b = "missing" ->
         IF sk = "endpoint"
           THEN EndpointError(400, "No JSON payload received")
           ELSE sendJson(sk, 400,
                  IF sk = "demo" THEN "No JSON payload received"
                                 ELSE "Missing JSON body", FALSE, ledAfter)
    [] OTHER ->
         IF sk = "endpoint"
           THEN EndpointError(400, "Invalid JSON")
           ELSE sendJson(sk, 400,
                  IF sk = "demo" THEN "Invalid JSON" ELSE "Invalid JSON format",
                  FALSE, ledAfter)

\* The handlers of the endpoint sketch assign ledState and drive the pin
\* themselves; handler names the one that does.
DirectWrite(state, handler) ==
  /\ ledState' = state
  /\ ledPin' = PinLevel(state)
  /\ ledWriter' = handler

\* One request taken by server.handleClient() and handled to its response.
HttpRequest(req) ==
  LET h == HttpRoute(sketch, req.method, req.path)
      e == HttpLedEffect(sketch, req)
  IN
  /\ HttpReady
  /\ event' = [BaseEvent EXCEPT !.kind = "http", !.method = req.method,
                                !.path = req.path, !.hasBody = req.hasBody,
                                !.text = req.body, !.variant = h,
                                !.arg = (e = "on")]
  /\ IF e = "keep"
       THEN /\ LedUnchanged
            /\ out' = <<HttpReply(sketch, req, ledState, clients)>>
       ELSE /\ IF sketch = "endpoint"
                 THEN DirectWrite(e = "on", h)
                 ELSE setLED(e = "on")
            /\ out' = (IF sketch = "endpoint" THEN <<>>
                       ELSE setLEDSends(sketch, e = "on"))
                      \o <<HttpReply(sketch, req, ledState', clients)>>
  /\ run' = RunAfterOther(ledState')
  /\ UNCHANGED <<sketch, phase, listening, clients, sessionCounter, wsOpen,
                 mqttConnected, bluetoothConnected, reading, subscribed, connects, maxIssued>>
  /\ UNCHANGED clock

----------------------------------------------------------------------------
(* MQTT messages: onMqttMessage(topic, payload, length), called from        *)
(* mqttClient.loop() for a message on a subscribed topic.                   *)

MqttTexts ==
  {"{\"state\":true}", "{\"state\":false}", "{\"state\":\"bogus\"}", "{}",
   "{\"STATE\":TRUE}", "hello", "status", "restart", "STATUS", "reboot"}

\* A containsKey("state") that finds the key in every text.
containsKeyStateAny(text) == TRUE

\* doc.containsKey("state") after deserializeJson(doc, message): the text is
\* a JSON object with a member named exactly "state".
containsKeyState(text) ==
  text \in {"{\"state\":true}", "{\"state\":false}", "{\"state\":\"bogus\"}"}

\* bool newState = doc["state"]: the values the conversion can yield. A JSON
\* boolean converts to itself; what a string converts to depends on the
\* ArduinoJson release the sketch is built with.
StateAsBool(text) ==
  CASE text = "{\"state\":true}" -> {TRUE}
    [] text = "{\"state\":false}" -> {FALSE}
    [] OTHER -> BOOLEAN

\* An onMqttMessage without the "restart" command.
MqttBranchNoRestart(topic, text) ==
  IF topic = TOPIC_LED_CONTROL
    THEN IF containsKeyState(text) THEN "set" ELSE "missing_state"
  ELSE IF topic = TOPIC_DEVICE_COMMAND
    THEN IF text = "status" THEN "status" ELSE "unknown"
  ELSE "other_topic"

\* The branch onMqttMessage takes.
MqttBranch(topic, text) ==
  IF topic = TOPIC_LED_CONTROL
    THEN IF containsKeyState(text) THEN "set" ELSE "missing_state"
  ELSE IF topic = TOPIC_DEVICE_COMMAND
    THEN IF text = "status" THEN "status"
         ELSE IF text = "restart" THEN "restart"
         ELSE "unknown"
  ELSE "other_topic"

\* createJsonResponse(success, message, includeState), read with ledState = led.
createJsonResponse(success, message, includeState, led) ==
  [BaseMsg EXCEPT !.success = BoolText(success), !.message = message,
                  !.ledKey = IF includeState THEN "led_state" ELSE "none",
                  !.led = IF includeState THEN BoolText(led) ELSE "none"]

\* publishLedStatus(), read with ledState = led.
publishLedStatus(led) ==
  <<[createJsonResponse(TRUE, IF led THEN "LED ON" ELSE "LED OFF", TRUE, led)
       EXCEPT !.chan = "mqtt", !.type = TOPIC_LED_STATUS]>>

MqttReady == sketch = "mqtt" /\ phase = "loop" /\ mqttConnected

\* ESP.restart(): the process starts again from its initialisers.
Restarted ==
  /\ phase' = "boot"
  /\ listening' = FALSE
  /\ ledState' = FALSE
  /\ ledPin' = "unset"
  /\ ledWriter' = "init"
  /\ mqttConnected' = FALSE
  /\ bluetoothConnected' = FALSE
  /\ reading' = IdleRead
  /\ subscribed' = {}
  /\ out' = <<>>
  /\ run' = RunAfterOther(FALSE)
  /\ now' = 0
  /\ lastWifiCheck' = 0
  /\ lastStatusBroadcast' = 0
  /\ lastMqttReconnect' = 0
  /\ wifiUp' = FALSE
  /\ pc' = 1
  /\ sinceWifiCheck' = 0
  /\ sinceMqttReconnect' = 0
  /\ sinceStatus' = 0

onMqttMessage(topic, text, newState) ==
  LET b == MqttBranch(topic, text) IN
  /\ MqttReady
  /\ topic \in subscribed
  /\ newState \in StateAsBool(text)
  /\ (b # "set" => newState = FALSE)
  /\ event' = [BaseEvent EXCEPT !.kind = "mqtt", !.topic = topic,
                                !.line = text, !.variant = b,
                                !.arg = newState]
  /\ CASE b = "set" ->
            /\ setLED(newState)
            /\ out' = publishLedStatus(ledState')
            /\ run' = RunAfterOther(ledState')
            /\ UNCHANGED <<phase, listening, mqttConnected,
                           bluetoothConnected, reading, subscribed>>
       [] b = "status" ->
            /\ LedUnchanged
            /\ out' = publishDeviceStatus(ledState, mqttConnected)
            /\ run' = RunAfterOther(ledState)
            /\ UNCHANGED <<phase, listening, mqttConnected,
                           bluetoothConnected, reading, subscribed>>
       [] b = "restart" -> Restarted
       [] OTHER ->
            /\ LedUnchanged
            /\ out' = <<>>
            /\ run' = RunAfterOther(ledState)
            /\ UNCHANGED <<phase, listening, mqttConnected,
                           bluetoothConnected, reading, subscribed>>
  /\ b # "restart" => UNCHANGED clock
  /\ UNCHANGED <<sketch, clients, sessionCounter, wsOpen, connects,
                 maxIssued>>

----------------------------------------------------------------------------
(* Bluetooth lines: loop() passes what SerialBT.readString() or             *)
(* Serial.readString() returned to processBluetoothCommand.                 *)

BtLines ==
  {"led on", "LED ON", "LED ON\r\n", " Led Off ", "status", "Status\n",
   "help", "", "\r\n", "blink", "led on\nled off"}

\* A trim() that leaves the line as it is.
BtTrimKept(line) == line

\* String::trim(): leading and trailing white space removed.
BtTrim(line) ==
  CASE line = "LED ON\r\n" -> "LED ON"
    [] line = " Led Off " -> "Led Off"
    [] line = "Status\n" -> "Status"
    [] line = "\r\n" -> ""
    [] OTHER -> line

\* String::toLowerCase() on a line.
BtLower(line) ==
  CASE line = "LED ON" -> "led on"
    [] line = "Led Off" -> "led off"
    [] line = "Status" -> "status"
    [] OTHER -> line

\* The branch processBluetoothCommand takes; "empty" is the fall through of
\* the final else-if (command.length() > 0), where nothing is executed.
BtBranch(line) ==
  LET command == BtLower(BtTrim(line)) IN
  IF command = "led on" THEN "led_on"
  ELSE IF command = "led off" THEN "led_off"
  ELSE IF command = "status" THEN "status"
  ELSE IF command = "help" THEN "help"
  ELSE IF command # "" THEN "unrecognized"
  ELSE "empty"

\* SerialBT.println(...) of one branch, taken as one text reply.
BtPrint(type, message, led) ==
  [BaseMsg EXCEPT !.chan = "bt", !.type = type, !.message = message,
                  !.ledKey = IF led = "none" THEN "none" ELSE "LED State",
                  !.led = led]

BtReply(branch, ledAfter, connected) ==
  CASE branch = "led_on" -> <<BtPrint("reply", "LED turned ON", "none")>>
    [] branch = "led_off" -> <<BtPrint("reply", "LED turned OFF", "none")>>
    [] branch = "status" ->
         <<[BtPrint("status", "=== Device Status ===",
                    IF ledAfter THEN "ON" ELSE "OFF")
              EXCEPT !.btConnected = IF connected THEN "Yes" ELSE "No"]>>
    [] branch = "help" -> <<BtPrint("help", "Available commands:", "none")>>
    [] branch = "unrecognized" ->
         <<BtPrint("reply", "Unknown command", "none")>>
    [] OTHER -> <<>>

BtReady == sketch = "bt" /\ phase = "loop" /\ listening

\* processBluetoothCommand(command); source is the port the line came from.
processBluetoothCommand(source, line) ==
  LET b == BtBranch(line) IN
  /\ BtReady
  /\ event' = [BaseEvent EXCEPT !.kind = "bt_line", !.method = source,
                                !.line = line, !.variant = b,
                                !.arg = (b = "led_on")]
  /\ IF b \in {"led_on", "led_off"}
       THEN setLED(b = "led_on")
       ELSE LedUnchanged
  /\ out' = BtReply(b, ledState', bluetoothConnected)
  /\ run' = RunAfterOther(ledState')
  /\ UNCHANGED <<sketch, phase, listening, clients, sessionCounter, wsOpen,
                 mqttConnected, bluetoothConnected, reading, subscribed, connects, maxIssued>>
  /\ UNCHANGED clock

\* The events the Bluetooth stack reports to the registered callback.
SppEvents ==
  {"ESP_SPP_SRV_OPEN_EVT", "ESP_SPP_CLOSE_EVT", "ESP_SPP_START_EVT"}

\* bluetoothCallback(event, param): called by the Bluetooth stack on its own
\* task, at any moment between two steps of loop(); bluetoothConnected is a
\* plain bool that the callback writes and loop() reads.
bluetoothCallback(evt) ==
  /\ BtReady
  /\ event' = [BaseEvent EXCEPT !.kind = "bt_callback", !.variant = evt]
  /\ UNCHANGED <<reading, subscribed>>
  /\ bluetoothConnected' =
       CASE evt = "ESP_SPP_SRV_OPEN_EVT" -> TRUE
         [] evt = "ESP_SPP_CLOSE_EVT" -> FALSE
         [] OTHER -> bluetoothConnected
  /\ out' = IF evt = "ESP_SPP_SRV_OPEN_EVT"
              THEN <<BtPrint("welcome",
                             "Welcome to ESP32 Bluetooth Server!", "none")>>
              ELSE <<>>
  /\ LedUnchanged
  /\ UNCHANGED <<sketch, phase, listening, clients, sessionCounter, wsOpen,
                 mqttConnected, connects, maxIssued, run>>
  /\ UNCHANGED clock

----------------------------------------------------------------------------
(* The clock. millis() is a uint32_t that wraps; the model counts it in     *)
(* ticks and wraps it at ClockMod. The intervals are given in ticks: the    *)
(* routines only compare an elapsed time with an interval, so what matters  *)
(* is whether the elapsed time is below, at or above it.                    *)

\* Stands for 2^32, where millis() wraps to 0.
ClockMod == 4

WIFI_CHECK_INTERVAL_MS == 2

STATUS_BROADCAST_INTERVAL_MS == 2

MQTT_RECONNECT_INTERVAL_MS == 1

STATUS_PUBLISH_INTERVAL_MS == 2

\* now - last on uint32_t.
Elapsed(t, last) == (t - last + ClockMod) % ClockMod

\* Time that really passed, as far as it is followed.
Passed(since, dt) ==
  IF since + dt > ClockMod - 1 THEN ClockMod - 1 ELSE since + dt

\* A checkWiFi() without its interval test.
WifiCheckDueAlways(sk, t, last) == TRUE

\* A checkMqtt() whose interval test never passes.
ReconnectDueNever(t, last) == FALSE

\* The interval test of checkWiFi(): "if (now - lastWifiCheck <
\* WIFI_CHECK_INTERVAL_MS) return;"; the endpoint sketch tests
\* "millis() - lastCheck > 30000" in loop().
WifiCheckDue(sk, t, last) ==
  IF sk = "endpoint" THEN Elapsed(t, last) > WIFI_CHECK_INTERVAL_MS
                     ELSE ~(Elapsed(t, last) < WIFI_CHECK_INTERVAL_MS)

\* An interval test of broadcastStatus() that also waits at equality.
BroadcastDueLate(t, last) ==
  Elapsed(t, last) > STATUS_BROADCAST_INTERVAL_MS

\* A scheduler that stores the time of every run, due or not.
TimerAfterAlways(elapsed, t, last) == t

\* A scheduler that never stores the time of its run.
TimerAfterKept(elapsed, t, last) == last

\* "lastStatusBroadcast = now;" / "lastStatusPublish = now;", reached
\* only past the interval test.
TimerAfter(elapsed, t, last) == IF elapsed THEN t ELSE last

\* "if (now - lastStatusBroadcast < STATUS_BROADCAST_INTERVAL_MS) return;"
BroadcastDue(t, last) == ~(Elapsed(t, last) < STATUS_BROADCAST_INTERVAL_MS)

\* "if (now - lastStatusPublish > STATUS_PUBLISH_INTERVAL_MS)"
PublishDue(t, last) == Elapsed(t, last) > STATUS_PUBLISH_INTERVAL_MS

\* "if (now - lastMqttReconnect > MQTT_RECONNECT_INTERVAL_MS)"
ReconnectDue(t, last) == Elapsed(t, last) > MQTT_RECONNECT_INTERVAL_MS

\* The routines loop() calls after the transport libraries' own loop, in the
\* order of the calls, ending with delay().
LoopOrder(sk) ==
  CASE sk \in WsSketches -> <<"checkWiFi", "broadcastStatus", "delay">>
    [] sk = "mqtt" ->
         <<"checkWiFi", "checkMqtt", "handlePeriodicStatus", "delay">>
    [] sk = "bt" -> <<"delay">>
    [] OTHER -> <<"checkWiFi", "delay">>

\* A loop() that calls the same routine again and again.
TurnStays(routine) ==
  /\ phase = "loop"
  /\ LoopOrder(sketch)[pc] = routine
  /\ pc' = pc

\* loop() is at the call of routine and goes on to the next one.
Turn(routine) ==
  /\ phase = "loop"
  /\ LoopOrder(sketch)[pc] = routine
  /\ pc' = (pc % Len(LoopOrder(sketch))) + 1

----------------------------------------------------------------------------
(* Periodic status. elapsed is the outcome of the interval test on          *)
(* millis(): computed from the clock where the clock is followed, any       *)
(* outcome where it is not.                                                 *)

\* broadcastStatus() of the hybrid and WebSocket sketches.
broadcastStatus(elapsed) ==
  /\ WsReady
  /\ event' = [BaseEvent EXCEPT !.kind = "broadcast", !.arg = elapsed]
  /\ lastStatusBroadcast' = TimerAfter(elapsed, now, lastStatusBroadcast)
  /\ sinceStatus' = IF elapsed THEN 0 ELSE sinceStatus
  /\ out' = IF ~elapsed THEN <<>>
            ELSE IF sketch = "hybrid"
              THEN IF getActiveClientCount(clients) = 0 THEN <<>>
                   ELSE <<broadcastTXT(
                            [buildStatusJson(sketch, ledState, clients)
                               EXCEPT !.type = "status"])>>
            ELSE <<broadcastTXT(buildStatusJson(sketch, ledState, clients))>>
  /\ LedUnchanged
  /\ UNCHANGED <<sketch, phase, listening, clients, sessionCounter, wsOpen,
                 mqttConnected, bluetoothConnected, reading, subscribed, connects, maxIssued, run>>
  /\ UNCHANGED <<now, lastWifiCheck, lastMqttReconnect, wifiUp,
                 sinceWifiCheck, sinceMqttReconnect>>

\* handlePeriodicStatus() of the MQTT sketch.
handlePeriodicStatus(elapsed) ==
  /\ sketch = "mqtt"
  /\ phase = "loop"
  /\ event' = [BaseEvent EXCEPT !.kind = "periodic", !.arg = elapsed]
  /\ lastStatusBroadcast' = TimerAfter(elapsed, now, lastStatusBroadcast)
  /\ sinceStatus' = IF elapsed THEN 0 ELSE sinceStatus
  /\ out' = IF elapsed /\ mqttConnected
              THEN publishDeviceStatus(ledState, mqttConnected) ELSE <<>>
  /\ LedUnchanged
  /\ UNCHANGED <<sketch, phase, listening, clients, sessionCounter, wsOpen,
                 mqttConnected, bluetoothConnected, reading, subscribed, connects, maxIssued, run>>
  /\ UNCHANGED <<now, lastWifiCheck, lastMqttReconnect, wifiUp,
                 sinceWifiCheck, sinceMqttReconnect>>

----------------------------------------------------------------------------
(* The links and their supervision.                                         *)

\* A call that tries to bring a link back: WiFi.reconnect() or
\* mqttClient.connect().
ReconnectCall(link) ==
  [BaseMsg EXCEPT !.chan = "link", !.type = "reconnect", !.message = link]

\* checkWiFi() (demo: checkWiFiConnection(); endpoint: the block in loop()).
\* WiFi.status() is read only past the interval test.
checkWiFi ==
  LET due == WifiCheckDue(sketch, now, lastWifiCheck) IN
  /\ phase = "loop"
  /\ sketch # "bt"
  /\ event' = [BaseEvent EXCEPT !.kind = "checkWiFi", !.arg = due,
                 !.variant = IF due THEN "sampled" ELSE "skipped"]
  /\ lastWifiCheck' = IF due THEN now ELSE lastWifiCheck
  /\ sinceWifiCheck' = IF due THEN 0 ELSE sinceWifiCheck
  /\ out' = IF due /\ ~wifiUp THEN <<ReconnectCall("wifi")>> ELSE <<>>
  /\ LedUnchanged
  /\ UNCHANGED <<sketch, phase, listening, clients, sessionCounter, wsOpen,
                 mqttConnected, bluetoothConnected, reading, subscribed, connects, maxIssued, run>>
  /\ UNCHANGED <<now, lastStatusBroadcast, lastMqttReconnect, wifiUp,
                 sinceMqttReconnect, sinceStatus>>

\* checkMqtt(): mqttClient.connected() is read on every call; connectMqtt()
\* is called past the interval test, and ok is whether it connects (it then
\* publishes the device status).
checkMqtt(ok) ==
  LET due == ~mqttConnected /\ ReconnectDue(now, lastMqttReconnect) IN
  /\ sketch = "mqtt"
  /\ phase = "loop"
  /\ ok => (due /\ wifiUp)
  /\ event' = [BaseEvent EXCEPT !.kind = "checkMqtt", !.arg = due,
                                !.variant = "sampled"]
  /\ lastMqttReconnect' = IF due THEN now ELSE lastMqttReconnect
  /\ sinceMqttReconnect' = IF due THEN 0 ELSE sinceMqttReconnect
  /\ mqttConnected' = IF due THEN ok ELSE mqttConnected
  /\ subscribed' = IF due THEN connectMqttSubscribed(ok, subscribed)
                          ELSE subscribed
  /\ UNCHANGED <<bluetoothConnected, reading>>
  /\ out' = IF ~due THEN <<>>
            ELSE <<ReconnectCall("mqtt")>>
                   \o (IF ok THEN publishDeviceStatus(ledState, TRUE)
                             ELSE <<>>)
  /\ LedUnchanged
  /\ UNCHANGED <<sketch, phase, listening, clients, sessionCounter, wsOpen,
                 connects, maxIssued, run>>
  /\ UNCHANGED <<now, lastWifiCheck, lastStatusBroadcast, wifiUp,
                 sinceWifiCheck, sinceStatus>>

\* delay() at the end of loop(): the only place where the clock moves. A
\* tick is much longer than the delay, so at most one tick passes.
LoopDelay(dt) ==
  /\ Turn("delay")
  /\ now' = (now + dt) % ClockMod
  /\ sinceWifiCheck' = Passed(sinceWifiCheck, dt)
  /\ sinceMqttReconnect' = Passed(sinceMqttReconnect, dt)
  /\ sinceStatus' = Passed(sinceStatus, dt)
  /\ event' = [BaseEvent EXCEPT !.kind = "delay", !.arg = (dt = 1)]
  /\ out' = <<>>
  /\ LedUnchanged
  /\ UNCHANGED <<sketch, phase, listening, clients, sessionCounter, wsOpen,
                 mqttConnected, bluetoothConnected, reading, subscribed, connects, maxIssued, run>>
  /\ UNCHANGED <<lastWifiCheck, lastStatusBroadcast, lastMqttReconnect,
                 wifiUp>>

\* The environment: the WiFi association or the broker connection is lost,
\* or the WiFi association comes back. The broker keeps no subscriptions of
\* a connection that is gone.
LinkEvent(kind, wifi, mqtt) ==
  /\ phase = "loop"
  /\ wifiUp' = wifi
  /\ mqttConnected' = mqtt
  /\ subscribed' = IF mqtt THEN subscribed ELSE {}
  /\ UNCHANGED <<bluetoothConnected, reading>>
  /\ event' = [BaseEvent EXCEPT !.kind = kind]
  /\ out' = <<>>
  /\ LedUnchanged
  /\ UNCHANGED <<sketch, phase, listening, clients, sessionCounter, wsOpen,
                 connects, maxIssued, run, now, timers, pc>>

WifiLost == wifiUp /\ LinkEvent("wifi_lost", FALSE, mqttConnected)

WifiBack == ~wifiUp /\ LinkEvent("wifi_back", TRUE, mqttConnected)

MqttLost == mqttConnected /\ LinkEvent("mqtt_lost", wifiUp, FALSE)

----------------------------------------------------------------------------
(* The events without the clock: the handlers do not read the timers, and   *)
(* the periodic routines are taken with either outcome of their interval    *)
(* test.                                                                    *)

Next ==
  \/ \E linkOk \in BOOLEAN, brokerOk \in BOOLEAN : Setup(linkOk, brokerOk)
  \/ getWiFiCredentials
  \/ \E n \in Slots : WsConnected(n)
  \/ \E n \in Slots : WsDisconnected(n)
  \/ \E n \in Slots : WsDropped(n)
  \/ WsLongRun
  \/ WsRefused
  \/ \E n \in Slots, p \in WsPayloads : WsText(n, p)
  \/ \E req \in HttpRequests : HttpRequest(req)
  \/ \E topic \in MqttTopics, text \in MqttTexts, newState \in BOOLEAN :
       onMqttMessage(topic, text, newState)
  \/ \E source \in {"bt", "serial"}, line \in BtLines :
       processBluetoothCommand(source, line)
  \/ \E evt \in SppEvents : bluetoothCallback(evt)
  \/ \E elapsed \in BOOLEAN : broadcastStatus(elapsed) /\ UNCHANGED pc
  \/ \E elapsed \in BOOLEAN : handlePeriodicStatus(elapsed) /\ UNCHANGED pc

Spec == Init /\ [][Next]_vars

----------------------------------------------------------------------------
(* loop() with the clock: the routines in the order of their calls, each    *)
(* with the interval test computed from millis(), the connections coming    *)
(* and going at the top of the loop.                                        *)

LoopCheckWiFi == Turn("checkWiFi") /\ checkWiFi

LoopBroadcastStatus ==
  /\ Turn("broadcastStatus")
  /\ broadcastStatus(BroadcastDue(now, lastStatusBroadcast))

LoopCheckMqtt == \E ok \in BOOLEAN : Turn("checkMqtt") /\ checkMqtt(ok)

LoopPeriodicStatus ==
  /\ Turn("handlePeriodicStatus")
  /\ handlePeriodicStatus(PublishDue(now, lastStatusBroadcast))

LoopStep ==
  \/ LoopCheckWiFi
  \/ LoopBroadcastStatus
  \/ LoopCheckMqtt
  \/ LoopPeriodicStatus
  \/ \E dt \in {0, 1} : LoopDelay(dt)

InitLoop == Init /\ sketch # "bt"

NextLoop ==
  \/ \E linkOk \in BOOLEAN, brokerOk \in BOOLEAN : Setup(linkOk, brokerOk)
  \/ getWiFiCredentials
  \/ \E n \in Slots : pc = 1 /\ WsConnected(n)
  \/ \E n \in Slots : pc = 1 /\ WsDisconnected(n)
  \/ \E n \in Slots : pc = 1 /\ WsDropped(n)
  \/ WifiLost
  \/ WifiBack
  \/ MqttLost
  \/ LoopStep

SpecLoop == InitLoop /\ [][NextLoop]_vars

\* loop() keeps running and time passes.
SpecLive == SpecLoop /\ WF_vars(LoopStep) /\ SF_vars(LoopDelay(1))

\* loop() together with the commands its transport polls dispatch. The
\* polls (handleClient(), webSocket.loop(), mqttClient.loop()) come first
\* in loop(), so a handler runs while loop() is at its first position.
RunRequests ==
  {req \in HttpRequests :
     /\ req.path \in {"/led/on", "/led", "/nope"}
     /\ req.body = {}}

RunPayloads == {{}}

RunTexts == {"status", "restart", "hello"}

RunLines == {"led on", " Led Off ", "status", "blink", ""}

Dispatch ==
  /\ pc = 1
  /\ \/ \E req \in RunRequests : HttpRequest(req)
     \/ \E n \in Slots, p \in RunPayloads : WsText(n, p)
     \/ \E n \in Slots, p \in InactivePayloads : WsTextInactive(n, p)
     \/ \E topic \in MqttTopics, text \in RunTexts, newState \in BOOLEAN :
          onMqttMessage(topic, text, newState)
     \/ \E source \in {"bt", "serial"}, line \in RunLines :
          processBluetoothCommand(source, line)

\* The Bluetooth stack calls bluetoothCallback() from its own task, at any
\* position of loop().
NextRun ==
  \/ NextLoop
  \/ Dispatch
  \/ \E evt \in SppEvents : bluetoothCallback(evt)

SpecRun ==
  Init /\ [][NextRun]_vars /\ WF_vars(LoopStep) /\ SF_vars(LoopDelay(1))

----------------------------------------------------------------------------
(* readSerialLine(timeout), the read of one credential line in setup(),     *)
(* one pass of its while loop at a time.                                    *)

SERIAL_TIMEOUT_MS == 2

\* What Serial.read() returns: a letter or one of the two line terminators.
SerialChars == {"a", "\n", "\r"}

Terminators == {"\n", "\r"}

\* Serial.available() is 0.
NoChar == "none"

\* A return that gives the empty string on a timeout, whatever was read.
readReturnSentinel(r, how) ==
  LET result == IF how = "timeout" THEN <<>> ELSE r.input IN
  [r EXCEPT !.at = "returned", !.how = how,
            !.wifiSSID = IF r.call = "ssid" THEN result ELSE @,
            !.wifiPassword = IF r.call = "password" THEN result ELSE @]

\* "return input;" with the assignment of the result in getWiFiCredentials().
readReturn(r, how) ==
  [r EXCEPT !.at = "returned", !.how = how,
            !.wifiSSID = IF r.call = "ssid" THEN r.input ELSE @,
            !.wifiPassword = IF r.call = "password" THEN r.input ELSE @]

\* What the read leaves alone.
ReadFrame ==
  /\ LedUnchanged
  /\ UNCHANGED <<sketch, phase, listening, clients, sessionCounter, wsOpen,
                 mqttConnected, bluetoothConnected, subscribed, connects,
                 maxIssued, run>>
  /\ UNCHANGED <<lastWifiCheck, lastStatusBroadcast, lastMqttReconnect,
                 wifiUp, pc>>

\* getWiFiCredentials() calls readSerialLine(SERIAL_TIMEOUT_MS): for the SSID
\* when setup() starts or asks again, for the password after an SSID that is
\* not empty.
readSerialLineCall(which) ==
  /\ sketch \in Prompting
  /\ phase \in {"boot", "prompt"}
  /\ reading.at # "loop"
  /\ \/ which = "ssid" /\ phase = "boot" /\ reading.call = "none"
     \/ which = "ssid" /\ phase = "prompt" /\ event.kind = "credentials"
     \/ /\ which = "password"
        /\ reading.call = "ssid"
        /\ reading.at = "returned"
        /\ reading.wifiSSID # <<>>
  /\ reading' = [reading EXCEPT !.call = which, !.at = "loop",
                                !.input = <<>>, !.start = now,
                                !.how = "none"]
  /\ event' = [BaseEvent EXCEPT !.kind = "read_call", !.variant = which]
  /\ out' = <<>>
  /\ ReadFrame
  /\ UNCHANGED <<now, sinceWifiCheck, sinceMqttReconnect, sinceStatus>>

\* One pass of "while (millis() - start < timeout)": c is the character read
\* (NoChar when none is available). A terminator returns the input;
\* otherwise the character is appended and delay(10) lets dt ticks pass.
readSerialLinePass(c, dt) ==
  /\ reading.at = "loop"
  /\ Elapsed(now, reading.start) < SERIAL_TIMEOUT_MS
  /\ IF c \in Terminators
       THEN /\ dt = 0
            /\ reading' = readReturn(reading, "line")
       ELSE /\ c # NoChar => Len(reading.input) < MaxInput
            /\ reading' = [reading EXCEPT
                             !.input = IF c = NoChar THEN @ ELSE Append(@, c)]
  /\ now' = (now + dt) % ClockMod
  /\ sinceWifiCheck' = Passed(sinceWifiCheck, dt)
  /\ sinceMqttReconnect' = Passed(sinceMqttReconnect, dt)
  /\ sinceStatus' = Passed(sinceStatus, dt)
  /\ event' = [BaseEvent EXCEPT !.kind = "read_pass", !.line = c,
                                !.arg = (dt = 1)]
  /\ out' = <<>>
  /\ ReadFrame

\* The loop test fails: "return input;" after the loop.
readSerialLineTimeout ==
  /\ reading.at = "loop"
  /\ ~(Elapsed(now, reading.start) < SERIAL_TIMEOUT_MS)
  /\ reading' = readReturn(reading, "timeout")
  /\ event' = [BaseEvent EXCEPT !.kind = "read_timeout"]
  /\ out' = <<>>
  /\ ReadFrame
  /\ UNCHANGED <<now, sinceWifiCheck, sinceMqttReconnect, sinceStatus>>

ReadStep ==
  \/ \E c \in SerialChars \cup {NoChar}, dt \in {0, 1} :
       readSerialLinePass(c, dt)
  \/ readSerialLineTimeout

\* A pass during which the clock advances.
ReadTick == \E c \in SerialChars \cup {NoChar} : readSerialLinePass(c, 1)

\* getWiFiCredentials() returns false on an SSID read as empty.
EmptySsid ==
  /\ reading.call = "ssid"
  /\ reading.at = "returned"
  /\ reading.wifiSSID = <<>>
  /\ event.kind # "credentials"
  /\ getWiFiCredentials

\* getWiFiCredentials() returns true and setup() goes on.
CredentialsRead(linkOk, brokerOk) ==
  /\ reading.call = "password"
  /\ reading.at = "returned"
  /\ Setup(linkOk, brokerOk)

InitRead == Init /\ sketch \in Prompting

NextRead ==
  \/ \E which \in {"ssid", "password"} : readSerialLineCall(which)
  \/ ReadStep
  \/ EmptySsid
  \/ \E linkOk \in BOOLEAN, brokerOk \in BOOLEAN :
       CredentialsRead(linkOk, brokerOk)

\* setup() up to the end of the credential prompt: the loop of
\* readSerialLine keeps running and delay(10) lets time pass.
SpecRead ==
  InitRead /\ [][NextRead]_vars /\ WF_vars(ReadStep) /\ SF_vars(ReadTick)

----------------------------------------------------------------------------
(* What a request asks of the LED, read off the request alone.              *)

\* An HTTP body as handleLedControl of the sketch sees it.
SeenBody(sk, text) == IF sk = "endpoint" THEN text ELSE toLowerCase(text)

\* "on" / "off" when the event is a SetActuator request, "none" otherwise.
Asked(sk, e) ==
  CASE e.kind = "http" /\ e.method = "GET" /\ e.path = "/led/on" -> "on"
    [] e.kind = "http" /\ e.method = "GET" /\ e.path = "/led/off" -> "off"
    [] e.kind = "http" /\ e.method = "POST" /\ e.path = "/led" /\ e.hasBody
         /\ StateTrue \in SeenBody(sk, e.text) -> "on"
    [] e.kind = "http" /\ e.method = "POST" /\ e.path = "/led" /\ e.hasBody
         /\ StateFalse \in SeenBody(sk, e.text)
         /\ SeenBody(sk, e.text) \cap {StateTrue, StateTrueSp} = {} -> "off"
    [] e.kind = "ws_text" /\ CmdLedOn \in toLowerCase(e.text) -> "on"
    [] e.kind = "ws_text" /\ CmdLedOff \in toLowerCase(e.text)
         /\ CmdLedOn \notin toLowerCase(e.text) -> "off"
    [] e.kind = "mqtt" /\ e.topic = TOPIC_LED_CONTROL
         /\ e.line = "{\"state\":true}" -> "on"
    [] e.kind = "mqtt" /\ e.topic = TOPIC_LED_CONTROL
         /\ e.line = "{\"state\":false}" -> "off"
    [] e.kind = "bt_line" /\ BtLower(BtTrim(e.line)) = "led on" -> "on"
    [] e.kind = "bt_line" /\ BtLower(BtTrim(e.line)) = "led off" -> "off"
    [] OTHER -> "none"

\* The state the sketches keep about the device: the flag and the pin.
DeviceState == <<ledState, ledPin>>

----------------------------------------------------------------------------
(* C1 *)

\* C1 (as amended): every SetActuator(v) request, on any transport of any
\* sketch, leaves ledState = v and the LED pin at the level of v.
C1_SetActuatorSets ==
  [][Asked(sketch, event') # "none" =>
       /\ ledState' = (Asked(sketch, event') = "on")
       /\ ledPin' = PinLevel(Asked(sketch, event') = "on")]_vars

\* C1 as claimed: SetActuator(v) leaves ledState = v and a version counter of
\* the device state strictly greater than before. The sketches keep no such
\* counter: a counter among the fields of the device state that strictly
\* increases makes the device state after the call differ from the one before.
C1_VersionIncreases ==
  [][Asked(sketch, event') # "none" =>
       /\ ledState' = (Asked(sketch, event') = "on")
       /\ DeviceState' # DeviceState]_vars

\* A POST /led that switched the LED on has been handled.
C1_Witness ==
  /\ event.kind = "http" /\ event.method = "POST"
  /\ Asked(sketch, event) = "on"
  /\ ledState /\ ledPin = "HIGH"

----------------------------------------------------------------------------
(* C2 *)

\* C2: after two consecutive frames dispatched as toggle, with no other
\* command in between, ledState is what it was before the first of them.
C2_ToggleTwiceRestores ==
  (sketch \in WsSketches /\ run.k = 2) => ledState = run.led0

\* Two toggles in a row were handled, starting with the LED on.
C2_Witness == sketch \in WsSketches /\ run.k = 2 /\ run.led0 /\ ledState

----------------------------------------------------------------------------
(* C3 *)

\* C3: from a state with ledState = false, the k-th consecutive toggle frame
\* leaves ledState true for odd k and false for even k, and its sender gets a
\* response with success = true whose led field and message ("LED ON" /
\* "LED OFF") are those of the state after that toggle.
C3_ToggleSequence ==
  (event.kind = "ws_text" /\ event.variant = "toggle"
     /\ run.led0 = FALSE /\ run.k >= 1) =>
    /\ ledState = (run.k % 2 = 1)
    /\ Len(out) >= 1
    /\ LET r == out[Len(out)] IN
         /\ r.chan = "ws" /\ r.to = event.slot
         /\ r.type = "response"
         /\ r.success = "true"
         /\ r.led \in {"true", "false"}
         /\ TextBool(r.led) = ledState
         /\ r.message = (IF ledState THEN "LED ON" ELSE "LED OFF")

\* The second toggle of a run that began with the LED off was answered.
C3_Witness ==
  /\ event.kind = "ws_text" /\ event.variant = "toggle"
  /\ run.led0 = FALSE /\ run.k = 2 /\ ~ledState
  /\ out[Len(out)].led = "false"

----------------------------------------------------------------------------
(* C4 *)

CommandVariants ==
  {"led_on", "led_off", "toggle", "status", "list", "unrecognized"}

----------------------------------------------------------------------------
(* C5 *)

\* The command patterns the WebSocket handler of the sketch knows.
KnownCommands(sk) ==
  {CmdLedOn, CmdLedOff, CmdToggle, CmdStatus}
    \cup (IF sk = "hybrid" THEN {CmdList} ELSE {})

\* A text frame that contains none of them, in any letter case.
UnknownFrame(sk, e) ==
  e.kind = "ws_text" /\ toLowerCase(e.text) \cap KnownCommands(sk) = {}

\* C5: a frame with no recognized command pattern is answered to its sender
\* with success = false and message "Unknown command", and changes neither
\* the LED nor the session registry.
C5_UnknownCommand ==
  [][UnknownFrame(sketch, event') =>
       /\ Len(out') = 1
       /\ out'[1].chan = "ws" /\ out'[1].to = event'.slot
       /\ out'[1].success = "false"
       /\ out'[1].message = "Unknown command"
       /\ UNCHANGED <<ledState, ledPin, clients, sessionCounter, wsOpen>>]_vars

\* An unknown frame was answered while the LED was on.
C5_Witness ==
  /\ UnknownFrame(sketch, event) /\ ledState
  /\ Len(out) = 1 /\ out[1].message = "Unknown command"

----------------------------------------------------------------------------
(* C6 *)

\* The body patterns handleLedControl of the sketch accepts.
AcceptedBodies(sk) ==
  {StateTrue, StateFalse}
    \cup (IF sk \in {"demo", "endpoint"} THEN {StateTrueSp, StateFalseSp}
                                         ELSE {})

BtCommands == {"led on", "led off", "status", "help"}

\* A received payload that is not recognized as a command.
Unrecognized(sk, e) ==
  \/ /\ e.kind = "http" /\ e.method = "POST" /\ e.path = "/led" /\ e.hasBody
     /\ SeenBody(sk, e.text) \cap AcceptedBodies(sk) = {}
  \/ UnknownFrame(sk, e)
  \/ e.kind = "mqtt" /\ e.topic = TOPIC_LED_CONTROL /\ ~containsKeyState(e.line)
  \/ /\ e.kind = "mqtt" /\ e.topic = TOPIC_DEVICE_COMMAND
     /\ e.line \notin {"status", "restart"}
  \/ e.kind = "bt_line" /\ BtLower(BtTrim(e.line)) \notin BtCommands

\* The last message sent is a failure reply on the transport of the event.
FailureAnswer(e, o) ==
  /\ Len(o) >= 1
  /\ LET r == o[Len(o)] IN
       CASE e.kind = "http" ->
              /\ r.chan = "http" /\ r.code = 400
              /\ (r.success = "false" \/ r.error # "none")
         [] e.kind = "ws_text" ->
              r.chan = "ws" /\ r.to = e.slot /\ r.success = "false"
         [] e.kind = "mqtt" -> r.chan = "mqtt" /\ r.success = "false"
         [] e.kind = "bt_line" ->
              r.chan = "bt" /\ r.message = "Unknown command"
         [] OTHER -> FALSE

\* The payloads the sketches only log: every unrecognized MQTT message and a
\* Bluetooth line that is empty once trimmed.
OnlyLogged(e) ==
  \/ e.kind = "mqtt"
  \/ e.kind = "bt_line" /\ BtLower(BtTrim(e.line)) = ""

ConnectionsKept ==
  /\ wsOpen' = wsOpen
  /\ mqttConnected' = mqttConnected
  /\ phase' = phase

\* C6 as claimed: on every transport an unrecognized payload is answered with
\* a failure reply over that transport, and the connection stays open.
C6_AlwaysAnswered ==
  [][Unrecognized(sketch, event') =>
       FailureAnswer(event', out') /\ ConnectionsKept]_vars

\* C6 (as amended): an unrecognized HTTP POST /led body, WebSocket frame or
\* non-empty Bluetooth line is answered with a failure reply over its
\* transport; an unrecognized MQTT message and an empty Bluetooth line are
\* answered with nothing. In every case the LED and the connections stay as
\* they were.
C6_AnsweredOrLogged ==
  [][Unrecognized(sketch, event') =>
       /\ ConnectionsKept
       /\ UNCHANGED <<ledState, ledPin>>
       /\ IF OnlyLogged(event') THEN out' = <<>>
                                ELSE FailureAnswer(event', out')]_vars

\* An LED-control message without a state member was handled with the LED
\* on, and nothing was published.
C6_Witness ==
  /\ event.kind = "mqtt" /\ event.topic = TOPIC_LED_CONTROL
  /\ Unrecognized(sketch, event)
  /\ ledState /\ out = <<>>

----------------------------------------------------------------------------
(* C7 *)

\* The events that render a status.
StatusEvent(sk, e) ==
  \/ e.kind = "http" /\ e.method = "GET" /\ e.path = "/status"
  \/ e.kind = "ws_text"
       /\ toLowerCase(e.text) \cap KnownCommands(sk) = {CmdStatus}
  \/ e.kind = "ws_connected"
  \/ e.kind = "broadcast" /\ e.arg
  \/ e.kind = "mqtt" /\ e.topic = TOPIC_DEVICE_COMMAND /\ e.line = "status"
  \/ e.kind = "periodic" /\ e.arg

\* The status requests that are always answered.
StatusRequest(sk, e) ==
  StatusEvent(sk, e) /\ e.kind \in {"http", "ws_text", "ws_connected", "mqtt"}

\* C7: the LED field of every status rendered for a status request, a new
\* connection or a periodic push, read back as a boolean, is ledState at that
\* moment; a status request always gets its status.
C7_StatusShowsLed ==
  StatusEvent(sketch, event) =>
    /\ \A i \in 1 .. Len(out) :
         /\ out[i].ledKey \in {"led", "led_state"}
         /\ out[i].led \in {"true", "false"}
         /\ TextBool(out[i].led) = ledState
    /\ StatusRequest(sketch, event) => Len(out) = 1

\* The hybrid sketch answered a WebSocket status request with the LED on.
C7_Witness ==
  /\ sketch = "hybrid"
  /\ event.kind = "ws_text" /\ StatusEvent(sketch, event)
  /\ ledState /\ Len(out) = 1 /\ out[1].led = "true"

----------------------------------------------------------------------------
(* C8 *)

\* A status request on any transport.
QueryStatus(sk, e) ==
  \/ e.kind = "http" /\ e.method = "GET" /\ e.path = "/status"
  \/ e.kind = "ws_text"
       /\ toLowerCase(e.text) \cap KnownCommands(sk) = {CmdStatus}
  \/ e.kind = "mqtt" /\ e.topic = TOPIC_DEVICE_COMMAND /\ e.line = "status"
  \/ e.kind = "bt_line" /\ BtLower(BtTrim(e.line)) = "status"

\* A "list" frame of the hybrid sketch.
ListSessions(sk, e) ==
  /\ sk = "hybrid" /\ e.kind = "ws_text"
  /\ toLowerCase(e.text) \cap KnownCommands(sk) = {CmdList}

\* C8: a status request and a "list" frame change neither the LED nor any
\* registry slot nor the session counter, and a "list" frame sends nothing.
C8_QueriesDoNotMutate ==
  [][(QueryStatus(sketch, event') \/ ListSessions(sketch, event')) =>
       /\ UNCHANGED <<ledState, ledPin, clients, sessionCounter>>
       /\ ListSessions(sketch, event') => out' = <<>>]_vars

\* A "list" frame was handled with the LED on and a session registered.
C8_Witness ==
  /\ ListSessions(sketch, event) /\ ledState
  /\ clients[event.slot].active /\ out = <<>>

----------------------------------------------------------------------------
(* C9 *)

\* C9 as claimed: in every sketch ledState is assigned only by setLED, and
\* after start-up the LED pin is at the level of ledState.
C9_OnlySetLED ==
  /\ ledWriter \in {"init", "setLED"}
  /\ phase # "boot" => ledPin = PinLevel(ledState)

\* C9 (as amended): in every sketch but endpoint ledState is assigned only by
\* setLED; in endpoint, which has no setLED, it is assigned by handleLedOn,
\* handleLedOff and handleLedControl themselves. In every sketch the LED pin
\* is at the level of ledState after start-up.
C9_WritersAndPin ==
  /\ sketch # "endpoint" => ledWriter \in {"init", "setLED"}
  /\ sketch = "endpoint" =>
       ledWriter \in {"init", "handleLedOn", "handleLedOff", "handleLedControl"}
  /\ phase # "boot" => ledPin = PinLevel(ledState)

\* The endpoint sketch switched the LED on from handleLedControl.
C9_Witness ==
  /\ sketch = "endpoint" /\ ledWriter = "handleLedControl"
  /\ ledState /\ ledPin = "HIGH"

----------------------------------------------------------------------------
(* C10 *)

\* C10: the session id registerClient assigns on a connect event is greater
\* than every session id handed out before.
C10_SessionIdsIncrease ==
  [][(sketch = "hybrid" /\ event'.kind = "ws_connected") =>
       U32Less(maxIssued, clients'[event'.slot].sessionId)]_vars

----------------------------------------------------------------------------
(* C11 *)

AllSlotsOpen == \A i \in Slots : wsOpen[i]

----------------------------------------------------------------------------
(* C12 *)

\* The one message of the step is a status sent to slot n.
StatusSentTo(n, o) ==
  /\ Len(o) = 1
  /\ o[1].chan = "ws" /\ o[1].to = n
  /\ o[1].type = "status"
  /\ o[1].led \in {"true", "false"}

\* C12 as claimed: on every connect event, in both WebSocket sketches, the
\* session is registered and the status sent carries its session id.
C12_StatusWithSessionId ==
  [][event'.kind = "ws_connected" =>
       /\ StatusSentTo(event'.slot, out')
       /\ clients'[event'.slot].active
       /\ out'[1].session_id # NoSid
       /\ out'[1].session_id = clients'[event'.slot].sessionId]_vars

\* C12 (as amended): on every connect event the sketch sends a status to the
\* new client; the hybrid sketch registers the session first and the status
\* carries the session id just assigned, the WebSocket sketch keeps no
\* registry and its status carries no session id. A slot becomes open only
\* in such a step, and a text frame is handled only for an open slot, so the
\* status is sent before any frame of that client is handled.
C12_StatusOnConnect ==
  [][/\ event'.kind = "ws_connected" =>
          /\ StatusSentTo(event'.slot, out')
          /\ IF sketch = "hybrid"
               THEN /\ clients'[event'.slot].active
                    /\ clients'[event'.slot].sessionId = sessionCounter'
                    /\ sessionCounter' # sessionCounter
                    /\ out'[1].session_id = clients'[event'.slot].sessionId
               ELSE /\ out'[1].session_id = NoSid
                    /\ clients' = clients
     /\ \A n \in Slots :
          /\ (~wsOpen[n] /\ wsOpen'[n]) =>
               (event'.kind = "ws_connected" /\ event'.slot = n)
          /\ (event'.kind = "ws_text" /\ event'.slot = n) => wsOpen[n]]_vars

\* The hybrid sketch greeted its second session with the LED on.
C12_Witness ==
  /\ sketch = "hybrid" /\ event.kind = "ws_connected"
  /\ ledState /\ sessionCounter = U32(0, 2)
  /\ out[1].session_id = U32(0, 2) /\ out[1].led = "true"

----------------------------------------------------------------------------
(* C13 *)

\* C13: in the hybrid sketch a registry slot is active exactly when the
\* library holds an open connection on it, and getActiveClientCount() is the
\* number of open connections, between 0 and the number of slots.
C13_ActiveIffOpen ==
  sketch = "hybrid" =>
    /\ \A i \in Slots : clients[i].active = wsOpen[i]
    /\ getActiveClientCount(clients) = Cardinality({i \in Slots : wsOpen[i]})
    /\ getActiveClientCount(clients) \in 0 .. MaxClients

\* Slot 0 was freed by a disconnect and slot 1 is open.
C13_Witness ==
  /\ sketch = "hybrid" /\ event.kind = "ws_disconnected" /\ event.slot = 0
  /\ clients[0].sessionId # U32Zero /\ ~clients[0].active
  /\ clients[1].active /\ getActiveClientCount(clients) = 1

----------------------------------------------------------------------------
(* C14 *)

\* A request of the hybrid sketch that sets the LED.
HybridSetRequest(e) ==
  \/ e.kind \in {"http", "ws_text"} /\ Asked("hybrid", e) # "none"
  \/ e.kind = "ws_text"
       /\ toLowerCase(e.text) \cap {CmdLedOn, CmdLedOff, CmdToggle}
            = {CmdToggle}

\* C14: every request of the hybrid sketch that sets the LED, over HTTP or
\* WebSocket, broadcasts a led_update carrying the new LED value to all
\* WebSocket clients, and does so before it sends the reply.
C14_PushBeforeReply ==
  [][(sketch = "hybrid" /\ HybridSetRequest(event')) =>
       /\ Len(out') = 2
       /\ out'[1].chan = "ws" /\ out'[1].to = Everyone
       /\ out'[1].type = "led_update"
       /\ out'[1].led = BoolText(ledState')
       /\ out'[2].type # "led_update"
       /\ out'[2].success = "true"
       /\ IF event'.kind = "http" THEN out'[2].chan = "http"
          ELSE out'[2].chan = "ws" /\ out'[2].to = event'.slot]_vars

\* GET /led/on was handled with a WebSocket client connected.
C14_Witness ==
  /\ sketch = "hybrid" /\ event.kind = "http" /\ event.path = "/led/on"
  /\ \E i \in Slots : clients[i].active
  /\ Len(out) = 2 /\ out[1].type = "led_update" /\ out[1].led = "true"

----------------------------------------------------------------------------
(* C15 *)

\* No session that a push could reach: no WebSocket connection is open,
\* the broker is not connected.
NoPushSession ==
  /\ \A i \in Slots : ~wsOpen[i]
  /\ ~mqttConnected

\* A call that pushes to all sessions: webSocket.broadcastTXT or
\* mqttClient.publish.
PushCall(m) == (m.chan = "ws" /\ m.to = Everyone) \/ m.chan = "mqtt"

\* C15 as claimed: a step that begins and ends with no push-capable session
\* issues no broadcast and no publish call.
C15_NoPushWithoutSession ==
  [][(NoPushSession /\ NoPushSession') =>
       \A i \in 1 .. Len(out') : ~PushCall(out'[i])]_vars

\* C15 (as amended): with no push-capable session, broadcastStatus of the
\* hybrid sketch and handlePeriodicStatus of the MQTT sketch issue no call
\* and no MQTT routine publishes. The calls that are issued all the same are
\* the led_update broadcast of the hybrid sketch's setLED (in setup() and in
\* the HTTP handlers) and the periodic broadcast of the WebSocket sketch,
\* which reach nobody.
C15_PushWithoutSession ==
  [][(NoPushSession /\ NoPushSession') =>
       \A i \in 1 .. Len(out') :
         PushCall(out'[i]) =>
           \/ sketch = "hybrid" /\ out'[i].type = "led_update"
                /\ ledWriter' = "setLED"
           \/ sketch = "ws" /\ event'.kind = "broadcast" /\ event'.arg]_vars

\* broadcastStatus of the hybrid sketch ran past its interval test with no
\* client connected and sent nothing.
C15_Witness ==
  /\ sketch = "hybrid" /\ event.kind = "broadcast" /\ event.arg
  /\ NoPushSession /\ out = <<>>

----------------------------------------------------------------------------
(* C16 *)

\* A run of the periodic status routine: broadcastStatus() or
\* handlePeriodicStatus().
SchedulerStep(e) == e.kind \in {"broadcast", "periodic"}

\* The interval of the periodic status of the running sketch.
StatusInterval ==
  IF sketch = "mqtt" THEN STATUS_PUBLISH_INTERVAL_MS
                     ELSE STATUS_BROADCAST_INTERVAL_MS

\* A session the periodic status can reach.
SessionActive ==
  \/ sketch \in WsSketches /\ \E i \in Slots : wsOpen[i]
  \/ sketch = "mqtt" /\ mqttConnected

\* Exactly one status goes to all sessions and the timer takes the time
\* of the run.
OneStatusPush ==
  /\ Len(out') = 1
  /\ PushCall(out'[1])
  /\ out'[1].led = BoolText(ledState)
  /\ lastStatusBroadcast' = now

\* C16 as claimed: a run of the scheduler with now - last_broadcast at or
\* above the interval and a session active issues exactly one status push
\* and sets last_broadcast to now.
C16_PushAtInterval ==
  [][(SchedulerStep(event')
        /\ Elapsed(now, lastStatusBroadcast) >= StatusInterval
        /\ SessionActive) => OneStatusPush]_vars

\* C16 (as amended): the WebSocket sketches push at or above the interval;
\* the MQTT sketch pushes only strictly above it, and at exactly the
\* interval it publishes nothing and leaves the timer as it was.
C16_PushPastInterval ==
  [][(SchedulerStep(event') /\ SessionActive) =>
       /\ (sketch \in WsSketches
             /\ Elapsed(now, lastStatusBroadcast) >= StatusInterval)
            => OneStatusPush
       /\ (sketch = "mqtt"
             /\ Elapsed(now, lastStatusBroadcast) > StatusInterval)
            => OneStatusPush
       /\ (sketch = "mqtt"
             /\ Elapsed(now, lastStatusBroadcast) = StatusInterval)
            => out' = <<>> /\ lastStatusBroadcast' = lastStatusBroadcast
      ]_vars

\* broadcastStatus of the hybrid sketch ran exactly one interval after boot
\* with a client connected and pushed one status.
C16_Witness ==
  /\ sketch = "hybrid" /\ event.kind = "broadcast"
  /\ now = STATUS_BROADCAST_INTERVAL_MS /\ lastStatusBroadcast = now
  /\ sinceStatus = 0
  /\ \E i \in Slots : wsOpen[i]
  /\ Len(out) = 1 /\ out[1].to = Everyone

----------------------------------------------------------------------------
(* C17 *)

\* The interval of the periodic status has elapsed as the running sketch
\* measures it: at or above the interval in the WebSocket sketches,
\* strictly above it in the MQTT sketch.
IntervalElapsed ==
  \/ Elapsed(now, lastStatusBroadcast) > StatusInterval
  \/ sketch \in WsSketches
       /\ Elapsed(now, lastStatusBroadcast) = StatusInterval

\* C17: a run of the scheduler with the interval elapsed and no session
\* active still sets last_broadcast to now (and, in the sketches that look
\* for a session, sends nothing); and every periodic status that is sent
\* comes at least a full interval after the timer was last set, so a session
\* that appears after an idle run is not served before a full interval has
\* passed since that run.
C17_TimerAdvancesAlone ==
  [][/\ (SchedulerStep(event') /\ IntervalElapsed /\ ~SessionActive) =>
          /\ lastStatusBroadcast' = now
          /\ sinceStatus' = 0
          /\ sketch # "ws" => out' = <<>>
     /\ (SchedulerStep(event') /\ out' # <<>>) =>
          sinceStatus >= StatusInterval]_vars

\* The first client of the hybrid sketch connected after an idle run of
\* broadcastStatus had moved the timer, less than an interval ago.
C17_Witness ==
  /\ sketch = "hybrid" /\ event.kind = "ws_connected" /\ connects = 1
  /\ lastStatusBroadcast = STATUS_BROADCAST_INTERVAL_MS
  /\ sinceStatus < STATUS_BROADCAST_INTERVAL_MS

----------------------------------------------------------------------------
(* C18 *)

\* The reconnect attempts on a link among the calls of a step.
ReconnectCalls(o, link) ==
  {i \in 1 .. Len(o) : o[i].type = "reconnect" /\ o[i].message = link}

\* C18: a step makes at most one reconnect attempt per link, and when it
\* makes one at least a full polling interval of that link has passed since
\* the link's timer was last set, that is since the previous attempt or a
\* later poll.
C18_OneAttemptPerInterval ==
  [][/\ Cardinality(ReconnectCalls(out', "wifi")) <= 1
     /\ Cardinality(ReconnectCalls(out', "mqtt")) <= 1
     /\ ReconnectCalls(out', "wifi") # {} =>
          sinceWifiCheck >= WIFI_CHECK_INTERVAL_MS
     /\ ReconnectCalls(out', "mqtt") # {} =>
          sinceMqttReconnect >= MQTT_RECONNECT_INTERVAL_MS]_vars

\* checkMqtt made an attempt that failed, after the clock had wrapped.
C18_Witness ==
  /\ sketch = "mqtt" /\ event.kind = "checkMqtt" /\ event.arg
  /\ ~mqttConnected
  /\ ReconnectCalls(out, "mqtt") # {}
  /\ now = 0 /\ lastMqttReconnect = 0 /\ sinceMqttReconnect = 0

----------------------------------------------------------------------------
(* C19 *)

\* The last step was a reconnect attempt on the link.
AttemptMade(link) == ReconnectCalls(out, link) # {}

\* A polling interval of the WiFi check has passed since the last poll, as
\* the running sketch measures it.
WifiPollDue ==
  IF sketch = "endpoint" THEN sinceWifiCheck > WIFI_CHECK_INTERVAL_MS
                         ELSE sinceWifiCheck >= WIFI_CHECK_INTERVAL_MS

\* While a link stays down, attempts on it are made again and again.
AttemptsRecur ==
  /\ []<>(phase # "loop" \/ wifiUp \/ AttemptMade("wifi"))
  /\ []<>(sketch # "mqtt" \/ phase # "loop" \/ mqttConnected
            \/ AttemptMade("mqtt"))

\* Every due poll that finds the WiFi link down makes an attempt, and an
\* attempt is only made on a link that is down.
AttemptsOnlyWhenDown ==
  /\ (event'.kind = "checkWiFi" /\ WifiPollDue /\ ~wifiUp) =>
       ReconnectCalls(out', "wifi") # {}
  /\ ReconnectCalls(out', "wifi") # {} => ~wifiUp
  /\ ReconnectCalls(out', "mqtt") # {} => ~mqttConnected

\* C19 as claimed: a link that is down is retried again and again, a link
\* that is up is not retried, and the status of a link is read only when
\* its polling interval has elapsed.
C19_SampledWhenDue ==
  /\ AttemptsRecur
  /\ [][/\ AttemptsOnlyWhenDown
        /\ (event'.kind = "checkWiFi" /\ event'.variant = "sampled") =>
             WifiPollDue
        /\ (event'.kind = "checkMqtt" /\ event'.variant = "sampled") =>
             sinceMqttReconnect > MQTT_RECONNECT_INTERVAL_MS]_vars

\* C19 (as amended): a link that is down is retried again and again and a
\* link that is up is not retried; the WiFi status is read exactly when the
\* polling interval has elapsed, while checkMqtt reads the broker
\* connection on every pass of loop() and applies the interval only to the
\* attempts.
C19_MqttSampledEveryPass ==
  /\ AttemptsRecur
  /\ [][/\ AttemptsOnlyWhenDown
        /\ event'.kind = "checkWiFi" =>
             (event'.variant = "sampled" <=> WifiPollDue)
        /\ event'.kind = "checkMqtt" => event'.variant = "sampled"]_vars

\* checkMqtt brought the broker connection back after it had been lost
\* during loop().
C19_Witness ==
  /\ sketch = "mqtt" /\ event.kind = "checkMqtt"
  /\ AttemptMade("mqtt") /\ mqttConnected
  /\ lastMqttReconnect # 0

----------------------------------------------------------------------------
(* C20 *)

\* The event is a POST /led request.
PostLed(e) == e.kind = "http" /\ e.method = "POST" /\ e.path = "/led"

\* The response of the request the last step handled.
Reply(o) == o[Len(o)]

\* Answered 200 with success=true and the LED value v, which is the LED's
\* new state.
LedAnswer(o, led, v) ==
  /\ led = v
  /\ Reply(o).chan = "http" /\ Reply(o).code = 200
  /\ Reply(o).success = "true" /\ Reply(o).led = BoolText(v)

----------------------------------------------------------------------------
(* C21 *)

\* A text with its letters in lower case, for the texts that have a
\* counterpart differing only in letter case.
FoldLine(line) ==
  CASE line = "LED ON" -> "led on"
    [] line = "STATUS" -> "status"
    [] line = "{\"STATE\":TRUE}" -> "{\"state\":true}"
    [] OTHER -> line

FoldCase(text) ==
  {IF f = CmdToggleUpper THEN CmdToggle
   ELSE IF f = StateTrueUpper THEN StateTrue ELSE f : f \in text}

\* A POST /led step did what the branch b stands for.
PostOutcome(b) ==
  /\ b = "on" => ledState' /\ Reply(out').code = 200
  /\ b = "off" => ~ledState' /\ Reply(out').code = 200
  /\ b \in {"missing", "invalid"} =>
       ledState' = ledState /\ Reply(out').code = 400

\* The transports that match without regard to letter case: HTTP bodies
\* except in the endpoint sketch, WebSocket frames, Bluetooth lines.
FoldedSameOutcome ==
  /\ (PostLed(event') /\ sketch # "endpoint") =>
       PostOutcome(PostBranch(sketch, event'.hasBody,
                              FoldCase(event'.text)))
  /\ event'.kind = "ws_text" =>
       event'.variant = WsSelected(sketch, clients[event'.slot].active,
                                   FoldCase(event'.text))
  /\ event'.kind = "bt_line" =>
       event'.variant = BtBranch(FoldLine(event'.line))

\* C21 as claimed: on every transport a payload is handled as its
\* lower-case counterpart is: same command, same state change, same
\* outcome.
C21_CaseInsensitiveEverywhere ==
  [][/\ FoldedSameOutcome
     /\ PostLed(event') =>
          PostOutcome(PostBranch(sketch, event'.hasBody,
                                 FoldCase(event'.text)))
     /\ event'.kind = "mqtt" =>
          event'.variant = MqttBranch(event'.topic, FoldLine(event'.line))
    ]_vars

\* C21 (as amended): HTTP bodies of the hybrid, REST and demo sketches,
\* WebSocket frames and Bluetooth lines are handled as their lower-case
\* counterparts are. The endpoint sketch and the MQTT sketch match case as
\* written: an upper-case "STATE":TRUE body is answered 400 by the endpoint
\* sketch, {"STATE":TRUE} on the LED-control topic and STATUS on the command
\* topic are dropped by the MQTT sketch, all without a state change.
C21_CaseInsensitiveButTwo ==
  [][/\ FoldedSameOutcome
     /\ (PostLed(event') /\ sketch = "endpoint" /\ event'.hasBody
           /\ event'.text = {StateTrueUpper}) =>
          Reply(out').code = 400 /\ ledState' = ledState
     /\ (event'.kind = "mqtt"
           /\ event'.line \in {"{\"STATE\":TRUE}", "STATUS"}) =>
          out' = <<>> /\ ledState' = ledState]_vars

\* The hybrid sketch switched the LED on for a body in upper case.
C21_Witness ==
  /\ sketch = "hybrid" /\ PostLed(event) /\ event.hasBody
  /\ event.text = {StateTrueUpper}
  /\ ledState /\ Reply(out).code = 200

----------------------------------------------------------------------------
(* C22 *)

\* The request matched no registered route and went to the onNotFound
\* handler.
NotRouted(e) == e.kind = "http" /\ e.variant = "handleNotFound"

\* C22 as claimed: a request that matches no route is answered 404 with
\* error "Not found" and the requested URI as path, and the LED stays as it
\* was.
C22_NotFoundWithPath ==
  [][NotRouted(event') =>
       /\ Reply(out').code = 404
       /\ Reply(out').error = "Not found"
       /\ Reply(out').path = event'.path
       /\ ledState' = ledState]_vars

\* C22 (as amended): a request that matches no route is answered 404 and
\* the LED stays as it was. The hybrid and REST minimal sketches answer with
\* error "Not found" and the requested URI; the endpoint sketch with error
\* "Endpoint not found" and the requested URI (as requested_path); the demo
\* sketch with success=false and the message "Endpoint not found", without
\* an error field or the URI.
C22_NotFoundPerSketch ==
  [][NotRouted(event') =>
       /\ Len(out') = 1
       /\ Reply(out').chan = "http" /\ Reply(out').code = 404
       /\ ledState' = ledState /\ ledPin' = ledPin
       /\ sketch \in {"hybrid", "rest"} =>
            /\ Reply(out').error = "Not found"
            /\ Reply(out').path = event'.path
       /\ sketch = "endpoint" =>
            /\ Reply(out').error = "Endpoint not found"
            /\ Reply(out').path = event'.path
       /\ sketch = "demo" =>
            /\ Reply(out').success = "false"
            /\ Reply(out').message = "Endpoint not found"
            /\ Reply(out').error = "none"
            /\ Reply(out').path = "none"]_vars

\* The demo sketch answered 404 to POST /status with the LED on.
C22_Witness ==
  /\ sketch = "demo" /\ NotRouted(event)
  /\ event.method = "POST" /\ event.path = "/status"
  /\ ledState /\ Reply(out).code = 404

----------------------------------------------------------------------------
(* C23 *)

\* A message on the LED-control topic.
LedControl(e) == e.kind = "mqtt" /\ e.topic = TOPIC_LED_CONTROL

\* The texts that are not a JSON object with a "state" member.
NoStateKey ==
  {"{}", "{\"STATE\":TRUE}", "hello", "status", "restart", "STATUS",
   "reboot"}

\* Exactly one publish, on the LED-status topic, with led_state = v.
OneLedStatus(o, v) ==
  /\ Len(o) = 1
  /\ o[1].chan = "mqtt" /\ o[1].type = TOPIC_LED_STATUS
  /\ o[1].ledKey = "led_state" /\ o[1].led = BoolText(v)

\* C23: a message on the LED-control topic whose "state" is a boolean sets
\* the LED to that boolean and is followed by exactly one publish on the
\* LED-status topic with led_state equal to the new LED state; a message
\* without a "state" key, or that is not JSON, publishes nothing and leaves
\* the LED, its pin and its writer as they were.
C23_MqttLedControl ==
  [][LedControl(event') =>
       /\ event'.line = "{\"state\":true}" =>
            ledState' /\ OneLedStatus(out', TRUE)
       /\ event'.line = "{\"state\":false}" =>
            ~ledState' /\ OneLedStatus(out', FALSE)
       /\ event'.line \in NoStateKey =>
            /\ out' = <<>>
            /\ ledState' = ledState /\ ledPin' = ledPin
            /\ ledWriter' = ledWriter]_vars

\* {"state":false} was handled on the LED-control topic and the LED status
\* was published.
C23_Witness ==
  /\ sketch = "mqtt" /\ LedControl(event)
  /\ event.line = "{\"state\":false}"
  /\ ~ledState /\ ledPin = "LOW" /\ OneLedStatus(out, FALSE)

----------------------------------------------------------------------------
(* C24 *)

\* A message on the device-command topic.
DeviceCommand(e) == e.kind = "mqtt" /\ e.topic = TOPIC_DEVICE_COMMAND

\* C24: on the device-command topic "status" causes exactly one publish of
\* the device status on the status topic and leaves the LED as it was;
\* "restart" restarts the process, which is then in its initial state with
\* the LED off; every other text causes no publish and changes nothing.
C24_DeviceCommand ==
  [][DeviceCommand(event') =>
       /\ event'.line = "status" =>
            /\ Len(out') = 1
            /\ out'[1].chan = "mqtt" /\ out'[1].type = TOPIC_DEVICE_STATUS
            /\ out'[1].led = BoolText(ledState)
            /\ ledState' = ledState /\ ledPin' = ledPin
            /\ phase' = phase
       /\ event'.line = "restart" =>
            /\ phase' = "boot"
            /\ ~ledState' /\ ledWriter' = "init"
            /\ ~mqttConnected' /\ ~listening'
            /\ now' = 0 /\ out' = <<>>
       /\ event'.line \notin {"status", "restart"} =>
            /\ out' = <<>>
            /\ ledState' = ledState /\ ledPin' = ledPin
            /\ ledWriter' = ledWriter
            /\ phase' = phase /\ mqttConnected' = mqttConnected]_vars

\* The process has just restarted on the "restart" command.
C24_Witness ==
  /\ sketch = "mqtt" /\ DeviceCommand(event) /\ event.line = "restart"
  /\ phase = "boot" /\ ~ledState /\ ~mqttConnected

----------------------------------------------------------------------------
(* C25 *)

\* The lines that read 'led on', 'led off', 'status' and 'help' once
\* trimmed and lower-cased, and the lines that are empty once trimmed.
BtOnLines == {"led on", "LED ON", "LED ON\r\n"}
BtOffLines == {" Led Off "}
BtQueryLines == {"status", "Status\n", "help"}
BtEmptyLines == {"", "\r\n"}

\* One text reply on the Bluetooth link.
BtReplied(o) == Len(o) = 1 /\ o[1].chan = "bt"

\* What a line does to the LED: 'led on' sets it, 'led off' clears it, every
\* other line leaves it as it was.
BtLedSemantics ==
  /\ event'.line \in BtOnLines => ledState' /\ ledPin' = "HIGH"
  /\ event'.line \in BtOffLines => ~ledState' /\ ledPin' = "LOW"
  /\ event'.line \notin (BtOnLines \cup BtOffLines) =>
       ledState' = ledState /\ ledPin' = ledPin

\* C25 as claimed: a line sets the LED as above and every line is answered
\* with a text reply on the Bluetooth link.
C25_EveryLineAnswered ==
  [][event'.kind = "bt_line" => BtLedSemantics /\ BtReplied(out')]_vars

\* C25 (as amended): a line sets the LED as above; a line that is not empty
\* once trimmed is answered with a text reply on the Bluetooth link, and a
\* line that is empty once trimmed is answered with nothing.
C25_NonEmptyLineAnswered ==
  [][event'.kind = "bt_line" =>
       /\ BtLedSemantics
       /\ event'.line \notin BtEmptyLines => BtReplied(out')
       /\ event'.line \in BtEmptyLines => out' = <<>>]_vars

\* A line of white space was received with the LED on and nothing was sent.
C25_Witness ==
  /\ sketch = "bt" /\ event.kind = "bt_line" /\ event.line = "\r\n"
  /\ ledState /\ out = <<>>

----------------------------------------------------------------------------
(* C26 *)

\* A step of a callback that runs on a task other than loop()'s.
OtherThread(e) == e.kind = "bt_callback"

\* The status reply of the Bluetooth sketch shows what loop() read from
\* bluetoothConnected.
StatusShowsConnected ==
  (event'.kind = "bt_line" /\ event'.variant = "status") =>
    out'[1].btConnected = (IF bluetoothConnected THEN "Yes" ELSE "No")

\* C26 as claimed: every command is applied in one step of the control
\* loop, a toggle inverts the LED state it finds, and a callback that runs
\* on another task writes none of the state that the control loop reads
\* for its responses: the LED state, its pin and the connection flag shown
\* in the status reply.
C26_CallbacksWriteNoSharedState ==
  [][/\ event'.variant = "toggle" => ledState' = ~ledState
     /\ StatusShowsConnected
     /\ OtherThread(event') =>
          /\ ledState' = ledState /\ ledPin' = ledPin
          /\ bluetoothConnected' = bluetoothConnected]_vars

----------------------------------------------------------------------------
(* C27 *)

\* The last step of setup() found the SSID empty or could not connect to
\* the WiFi network.
StartupFailed(e) ==
  e.kind = "credentials" \/ (e.kind = "setup" /\ ~e.arg)

\* A step in which a command from a transport is handled or a transport
\* event is served.
Served(e) ==
  e.kind \in {"http", "ws_text", "ws_connected", "ws_disconnected", "mqtt"}

\* No transport is active, and while none is no command is served.
NoTransport ==
  /\ StartupFailed(event') => (~listening' /\ ~mqttConnected')
  /\ ~listening => ~Served(event')

\* C27 as claimed: when setup() finds the SSID empty or cannot connect, no
\* transport is started, loop() is never entered and no command is served;
\* the process does nothing more than wait.
C27_HaltsOnStartupFailure ==
  [][/\ NoTransport
     /\ StartupFailed(event') => phase' \in {"prompt", "halted"}
     /\ phase \in {"prompt", "halted"} => StartupFailed(event')
          \/ event'.kind = "setup"]_vars

\* C27 (as amended): when setup() finds the SSID empty it asks again and
\* goes on once an SSID is entered; when it cannot connect it stays in an
\* endless delay loop, from which there is no step, except in the endpoint
\* sketch, whose setup() returns: there loop() runs and keeps trying to
\* reconnect, but the HTTP server is never started. In every case no
\* transport is started and no command is served.
C27_EndpointRunsLoop ==
  [][/\ NoTransport
     /\ phase # "halted"
     /\ event'.kind = "credentials" => phase' = "prompt"
     /\ (event'.kind = "setup" /\ ~event'.arg) =>
          phase' = (IF sketch = "endpoint" THEN "loop" ELSE "halted")
     /\ (sketch = "endpoint" /\ phase = "loop" /\ ~listening) =>
          ~listening' /\ phase' = "loop"]_vars

\* loop() of the endpoint sketch tried to reconnect after a setup() that
\* had failed to connect.
C27_Witness ==
  /\ sketch = "endpoint" /\ phase = "loop" /\ ~listening
  /\ event.kind = "checkWiFi" /\ AttemptMade("wifi")

----------------------------------------------------------------------------
(* C28 *)

\* The routines of loop(); the transports are polled where loop() is at its
\* first position.
LoopRoutines ==
  {"checkWiFi", "checkMqtt", "handlePeriodicStatus", "broadcastStatus",
   "delay"}

\* loop() is at the call of routine r, or the sketch has no such routine.
AtTurn(r) ==
  \/ \A k \in 1 .. Len(LoopOrder(sketch)) : LoopOrder(sketch)[k] # r
  \/ phase = "loop" /\ LoopOrder(sketch)[pc] = r

\* While loop() runs, each of its routines is reached again and again.
EveryRoutineRecurs ==
  \A r \in LoopRoutines : []<>(phase # "loop" \/ AtTurn(r))

\* C28 as claimed: once setup() has completed, no step ever takes the
\* process out of loop(), and each routine of loop() is reached again and
\* again.
C28_LoopNeverLeft ==
  /\ [][phase = "loop" => phase' = "loop"]_vars
  /\ EveryRoutineRecurs

\* C28 (as amended): once setup() has completed, each routine of loop() is
\* reached again and again for as long as the process runs, and the only
\* step that takes the process out of loop() is the MQTT "restart" command,
\* which starts the process again from setup().
C28_LoopLeftOnlyByRestart ==
  /\ [][(phase = "loop" /\ phase' # "loop") =>
          /\ sketch = "mqtt" /\ DeviceCommand(event')
          /\ event'.line = "restart"
          /\ phase' = "boot"]_vars
  /\ EveryRoutineRecurs

\* checkMqtt of the MQTT sketch made an attempt that failed while the WiFi
\* link was down, and loop() went on to its next routine.
C28_Witness ==
  /\ sketch = "mqtt" /\ phase = "loop"
  /\ event.kind = "checkMqtt" /\ AttemptMade("mqtt")
  /\ ~mqttConnected /\ ~wifiUp
  /\ LoopOrder(sketch)[pc] = "handlePeriodicStatus"

----------------------------------------------------------------------------
(* C29 *)

\* The events that carry a command of a client.
CommandKinds == {"http", "ws_text", "mqtt", "bt_line"}

\* The event is a ToggleActuator request.
AskedToggle(e) ==
  \/ e.kind = "http" /\ e.path = "/led/toggle"
  \/ e.kind = "ws_text" /\ e.variant = "toggle"

\* An LED-control message whose state value the handler reads as true: the
\* conversion of a value that is not a boolean is the JSON library's.
ReadAsOn(e) ==
  /\ e.kind = "mqtt"
  /\ e.topic = TOPIC_LED_CONTROL
  /\ e.variant = "set"
  /\ e.arg

\* A POST /led whose body carries "state": true, with or without the space.
PostedOn(sk, e) ==
  /\ e.kind = "http"
  /\ e.method = "POST"
  /\ e.path = "/led"
  /\ SeenBody(sk, e.text) \cap {StateTrue, StateTrueSp} # {}

\* The step turns the LED on.
TurnedOn == ~ledState /\ ledState'

\* C29: the LED flag is false when the process starts and setup() leaves it
\* false with the pin low; a step that turns it on handles a command that
\* sets the LED on or toggles it; and a step that is not the handling of a
\* command (setup, a timer, a link check, a broadcast, a connect or a
\* disconnect, the passing of time) leaves the flag as it was.
C29_OffUntilCommanded ==
  [][/\ phase = "boot" => ~ledState
     /\ event'.kind = "setup" => (~ledState' /\ ledPin' = "LOW")
     /\ TurnedOn => /\ event'.kind \in CommandKinds
                    /\ event'.arg
                    /\ \/ Asked(sketch, event') = "on"
                       \/ PostedOn(sketch, event')
                       \/ AskedToggle(event')
                       \/ ReadAsOn(event')
     /\ event'.kind \notin CommandKinds => ledState' = ledState]_vars

\* loop() of the MQTT sketch has gone round, a reconnect attempt was due and
\* made, and the LED is still off with the pin low.
C29_Witness ==
  /\ sketch = "mqtt"
  /\ event.kind = "checkMqtt"
  /\ event.arg
  /\ now >= 2
  /\ ~ledState
  /\ ledPin = "LOW"

----------------------------------------------------------------------------
(* C30 *)

\* The step is a connect event of the hybrid sketch, which calls
\* registerClient for the slot of the event.
RegisterStep == sketch = "hybrid" /\ event'.kind = "ws_connected"

\* The slot of the step was inactive, holds the next value of the counter
\* and is active after it, and the counter has moved to that value.
SlotFilled(n) ==
  /\ ~clients[n].active
  /\ clients'[n].sessionId = U32Inc(sessionCounter)
  /\ clients'[n].active
  /\ sessionCounter' = U32Inc(sessionCounter)

\* C30 (as claimed): register places the new session in the lowest-indexed
\* slot whose active flag is false, gives it the next value of the session
\* counter and marks it active, and never writes an active slot.
C30_LowestInactiveSlot ==
  [][RegisterStep =>
       /\ SlotFilled(event'.slot)
       /\ \A i \in Slots : i < event'.slot => clients[i].active]_vars

\* C30 (as amended): register fills the slot named by the connect event,
\* whichever inactive slot that is, gives it the next value of the session
\* counter and marks it active; it writes no other slot and never an active
\* one.
C30_SlotOfTheEvent ==
  [][RegisterStep =>
       /\ SlotFilled(event'.slot)
       /\ \A i \in Slots : i # event'.slot => clients'[i] = clients[i]]_vars

\* A session was registered in slot 1 while slot 0 is inactive.
C30_Witness ==
  /\ sketch = "hybrid"
  /\ event.kind = "ws_connected"
  /\ event.slot = 1
  /\ clients[1].active
  /\ ~clients[0].active

----------------------------------------------------------------------------
(* C31 *)

\* The step is a disconnect event of the hybrid sketch, which calls
\* unregisterClient for the slot of the event.
UnregisterStep == sketch = "hybrid" /\ event'.kind = "ws_disconnected"

\* Every field of slot n but the active flag is as it was.
EntryKept(n) ==
  /\ clients'[n].sessionId = clients[n].sessionId
  /\ clients'[n].ip = clients[n].ip
  /\ clients'[n].connectTime = clients[n].connectTime

\* C31: unregister(k) clears the active flag of slot k and nothing else:
\* the other slots, the session id, address and connect time of slot k, the
\* session counter and the LED are as they were, and no entry moves; on a
\* slot that is already inactive the whole table is as it was.
C31_UnregisterFrame ==
  [][UnregisterStep =>
       /\ ~clients'[event'.slot].active
       /\ EntryKept(event'.slot)
       /\ \A i \in Slots : i # event'.slot => clients'[i] = clients[i]
       /\ sessionCounter' = sessionCounter
       /\ ledState' = ledState /\ ledPin' = ledPin
       /\ ~clients[event'.slot].active => clients' = clients]_vars

\* Slot 0, registered after the clock had moved, was unregistered while slot 1
\* is active and the LED is on; its id, address and connect time are kept.
C31_Witness ==
  /\ sketch = "hybrid"
  /\ event.kind = "ws_disconnected"
  /\ event.variant # "dropped"
  /\ event.slot = 0
  /\ ~clients[0].active
  /\ clients[0].sessionId # U32Zero
  /\ clients[0].ip # NoAddress
  /\ clients[0].connectTime > 0
  /\ clients[1].active
  /\ ledState

\* A disconnect event named a slot that was inactive already.
C31_WitnessInactive ==
  /\ sketch = "hybrid"
  /\ event.kind = "ws_disconnected"
  /\ event.variant = "dropped"
  /\ clients[event.slot].sessionId # U32Zero

----------------------------------------------------------------------------
(* C32 *)

\* now - last_broadcast is below the interval of the running sketch.
BelowInterval == Elapsed(now, lastStatusBroadcast) < StatusInterval

\* C32: a run of the scheduler with now - last_broadcast below the interval
\* does nothing: it sends nothing and leaves last_broadcast, the LED and the
\* session registry as they were.
C32_BelowIntervalNoOp ==
  [][(SchedulerStep(event') /\ BelowInterval) =>
       /\ out' = <<>>
       /\ lastStatusBroadcast' = lastStatusBroadcast
       /\ ledState' = ledState /\ ledPin' = ledPin
       /\ clients' = clients
       /\ sessionCounter' = sessionCounter
       /\ wsOpen' = wsOpen]_vars

\* broadcastStatus of the hybrid sketch ran one tick after its last
\* broadcast, with a client connected and the LED on, and sent nothing.
C32_Witness ==
  /\ sketch = "hybrid"
  /\ event.kind = "broadcast"
  /\ ~event.arg
  /\ lastStatusBroadcast > 0
  /\ Elapsed(now, lastStatusBroadcast) = 1
  /\ \E i \in Slots : clients[i].active
  /\ ledState
  /\ out = <<>>

----------------------------------------------------------------------------
(* C33 *)

\* A call of readSerialLine is in its loop / has returned.
InReadLoop == reading.at = "loop"

ReadReturned == reading.at = "returned"

\* The call returned because the timeout had elapsed.
ReadTimedOut == ReadReturned /\ reading.how = "timeout"

\* The string the caller got from the call.
ReadResult ==
  IF reading.call = "ssid" THEN reading.wifiSSID ELSE reading.wifiPassword

\* The step on which readSerialLine returns.
ReadReturns == InReadLoop /\ reading'.at = "returned"

\* C33 (as claimed): every call of readSerialLine returns, at a line
\* terminator or once the timeout has elapsed, and on a timeout it returns
\* the empty string, a value the caller can tell apart from entered input.
C33_TimeoutGivesSentinel ==
  /\ InReadLoop ~> ReadReturned
  /\ [](ReadTimedOut => ReadResult = <<>>)

\* C33 (as amended): every call of readSerialLine returns, at a line
\* terminator met before the timeout or at the first loop test with the
\* timeout elapsed; on either return the result is the characters read so
\* far, so a timeout returns the empty string only if nothing was typed, and
\* getWiFiCredentials asks again on an empty SSID however it came about.
C33_ReturnsWhatWasRead ==
  /\ InReadLoop ~> ReadReturned
  /\ [][ReadReturns =>
          /\ ReadResult' = reading.input
          /\ reading'.how = "timeout" <=>
               Elapsed(now, reading.start) >= SERIAL_TIMEOUT_MS
          /\ reading'.how = "line" <=> event'.line \in Terminators]_vars
  /\ [][event'.kind = "credentials" =>
          ReadReturned /\ reading.wifiSSID = <<>>]_vars

\* The read of the SSID timed out after one character had been typed, and
\* that character is the SSID.
C33_Witness ==
  /\ ReadTimedOut
  /\ reading.call = "ssid"
  /\ reading.wifiSSID = <<"a">>
  /\ Elapsed(now, reading.start) = SERIAL_TIMEOUT_MS

\* getWiFiCredentials asked again after an empty line was entered before the
\* timeout.
C33_WitnessEmptyLine ==
  /\ event.kind = "credentials"
  /\ reading.how = "line"
  /\ reading.wifiSSID = <<>>

----------------------------------------------------------------------------
(* C34 *)

\* The number a uint32_t stands for.
U32Val(x) == x.hi * Half + x.lo

\* The session id of every active slot lies in 1 .. sessionCounter.
ActiveIdsInRange ==
  \A i \in Slots :
    clients[i].active =>
      /\ U32Val(clients[i].sessionId) >= 1
      /\ U32Val(clients[i].sessionId) <= U32Val(sessionCounter)

\* Two distinct active slots hold different session ids.
ActiveIdsDistinct ==
  \A i, j \in Slots :
    (i # j /\ clients[i].active /\ clients[j].active) =>
      clients[i].sessionId # clients[j].sessionId

\* C34: in every reachable state of the hybrid sketch the session id of an
\* active slot lies in 1 .. sessionCounter, distinct active slots hold
\* different ids, and sessionCounter is the number of connect events handled
\* so far: it starts at 0 and every connect event raises it by one.
C34_RegistryInvariant ==
  [][sketch = "hybrid" =>
       /\ ActiveIdsInRange'
       /\ ActiveIdsDistinct'
       /\ event'.kind = "ws_connected" =>
            U32Val(sessionCounter') = U32Val(sessionCounter) + 1]_vars

----------------------------------------------------------------------------
(* C35 *)

\* The event is a text frame, on a slot with or without a session.
TextFrame(e) == e.kind \in {"ws_text", "ws_text_inactive"}

\* C35: in the hybrid sketch a text frame on a slot whose registry entry is
\* not active is ignored, whatever command it carries: the LED and the pin,
\* the registry and the counter are as they were, and nothing is sent, to
\* the slot or to all.
C35_InactiveSlotIgnored ==
  [][(/\ sketch = "hybrid"
      /\ TextFrame(event')
      /\ ~clients[event'.slot].active) =>
       /\ out' = <<>>
       /\ ledState' = ledState /\ ledPin' = ledPin
       /\ clients' = clients
       /\ sessionCounter' = sessionCounter]_vars

\* A led_on frame came on slot 0 after its session was closed, with another
\* session active and the LED off, and nothing happened.
C35_Witness ==
  /\ sketch = "hybrid"
  /\ event.kind = "ws_text_inactive"
  /\ event.slot = 0
  /\ CmdLedOn \in event.text
  /\ ~clients[0].active
  /\ clients[0].sessionId # U32Zero
  /\ clients[1].active
  /\ ~ledState
  /\ out = <<>>

----------------------------------------------------------------------------
(* C36 *)

\* The step brings up the connection to the broker.
MqttConnects == sketch = "mqtt" /\ ~mqttConnected /\ mqttConnected'

\* The device statuses among the messages of a step.
DeviceStatuses(o) ==
  {i \in 1 .. Len(o) : o[i].chan = "mqtt" /\ o[i].type = TOPIC_DEVICE_STATUS}

\* C36: every step that brings up the MQTT connection, in setup() or in a
\* reconnect of checkMqtt(), leaves the client subscribed to the LED-control
\* and the device-command topic and publishes exactly one device status;
\* while the connection is up both subscriptions are in place, and a message
\* is handled only on a topic subscribed to.
C36_SubscribedAfterConnect ==
  [][/\ MqttConnects =>
          /\ event'.kind \in {"setup", "checkMqtt"}
          /\ subscribed' = {TOPIC_LED_CONTROL, TOPIC_DEVICE_COMMAND}
          /\ Cardinality(DeviceStatuses(out')) = 1
     /\ (sketch = "mqtt" /\ mqttConnected') =>
          subscribed' = {TOPIC_LED_CONTROL, TOPIC_DEVICE_COMMAND}
     /\ event'.kind = "mqtt" => event'.topic \in subscribed]_vars

\* A device command was handled on a connection to the broker, after
\* checkMqtt() had made a reconnect attempt.
C36_Witness ==
  /\ sketch = "mqtt"
  /\ event.kind = "mqtt"
  /\ event.topic = TOPIC_DEVICE_COMMAND
  /\ event.variant = "status"
  /\ mqttConnected
  /\ lastMqttReconnect > 0

----------------------------------------------------------------------------
(* C37 *)

\* The calls of webSocket.sendTXT / broadcastTXT among the messages of a step.
WsSends(o) == {i \in 1 .. Len(o) : o[i].chan = "ws"}

\* C37: in the hybrid sketch no WebSocket send or broadcast is issued before
\* the WebSocket server was started (which setup() does after WiFi is
\* connected): every step that sends or broadcasts starts with the server
\* running, the step of setup() with its setLED(false) included.
C37_NoSendBeforeBegin ==
  [][(sketch = "hybrid" /\ WsSends(out') # {}) => listening]_vars

----------------------------------------------------------------------------
(* C38 *)

\* The sketch runs a status timer in loop(): broadcastStatus() or
\* handlePeriodicStatus().
HasStatusTimer(sk) ==
  \E i \in 1..Len(LoopOrder(sk)) :
    LoopOrder(sk)[i] \in {"broadcastStatus", "handlePeriodicStatus"}

\* The time that really passed since the status timer was stored has
\* reached the interval, as the sketch's comparison reads it.
StatusDue ==
  IF sketch = "mqtt" THEN sinceStatus > STATUS_PUBLISH_INTERVAL_MS
                     ELSE sinceStatus >= STATUS_BROADCAST_INTERVAL_MS

\* The time that really passed since the last reconnection attempt is past
\* the interval.
ReconnectPollDue == sinceMqttReconnect > MQTT_RECONNECT_INTERVAL_MS

\* The last step ran the interval test of the named routine and the test
\* passed.
TimerFired(kinds) == event.kind \in kinds /\ event.arg

\* The millisecond clock has gone past its largest value since the timer
\* was stored: it now reads less than the stored time.
Wrapped(t, last) == t < last

\* The WiFi timer and the status timer answer as the true elapsed time
\* says they should.
StoredTimersAgree ==
  /\ event'.kind = "checkWiFi" => (event'.arg <=> WifiPollDue)
  /\ event'.kind \in {"broadcast", "periodic"} => (event'.arg <=> StatusDue)

\* No timer stops firing: the WiFi check and the status timer pass again
\* and again, and so does the reconnection test while the broker
\* connection is down.
TimersKeepFiring ==
  /\ []<>(phase # "loop" \/ TimerFired({"checkWiFi"}))
  /\ []<>(phase # "loop" \/ ~HasStatusTimer(sketch)
            \/ TimerFired({"broadcast", "periodic"}))
  /\ []<>(sketch # "mqtt" \/ phase # "loop" \/ mqttConnected
            \/ TimerFired({"checkMqtt"}))

\* C38 as claimed: with the clock wrapping around, every interval test of
\* loop() (WiFi check, status broadcast or publication, MQTT reconnection)
\* passes exactly when the true time elapsed since the stored time has
\* reached the interval, never before and never later, and no timer stops
\* firing.
C38_TimersSurviveWrap ==
  /\ TimersKeepFiring
  /\ [][/\ StoredTimersAgree
        /\ event'.kind = "checkMqtt" =>
             (event'.arg <=> (~mqttConnected /\ ReconnectPollDue))]_vars

\* C38 for the timers the code keeps fresh: the WiFi and status timers,
\* stored on every firing, pass exactly when the true elapsed time has
\* reached the interval and no timer stops firing; the reconnection test
\* never passes early, and passes on time as long as less than a full turn
\* of the clock went by since the last attempt.
C38_FreshTimersSurviveWrap ==
  /\ TimersKeepFiring
  /\ [][/\ StoredTimersAgree
        /\ event'.kind = "checkMqtt" =>
             /\ event'.arg => (~mqttConnected /\ ReconnectPollDue)
             /\ (~mqttConnected /\ ReconnectPollDue
                   /\ sinceMqttReconnect < ClockMod - 1) => event'.arg]_vars

\* A status timer fired across the wrap: the time it stores is numerically
\* below the one it replaced.
C38_Witness ==
  /\ TimerFired({"broadcast", "periodic"})
  /\ lastStatusBroadcast = now /\ now = 0
  /\ sinceStatus = 0

\* The reconnection test did not pass although the broker connection is
\* down and more than the interval has really gone by: a full turn of the
\* clock went by while the connection was up.
C38_StaleTimer ==
  /\ sketch = "mqtt" /\ event.kind = "checkMqtt" /\ ~event.arg
  /\ ~mqttConnected /\ ReconnectPollDue

====
